---- MODULE Spec2Model ----
(***************************************************************************)
(* Gantt Planner: the session state machine of app_fixed.py over the      *)
(* project documents of data_manager.py, the export chain of              *)
(* gantt_visualizer_fixed.py and the statistics of utils.py.              *)
(***************************************************************************)
EXTENDS Integers, Sequences, FiniteSets, TLC

\* ------------------------------------------------------------------ bounds
\* Largest number of tasks a project holds in the explored runs.
MaxTasks == 2
\* Number of handler runs explored; also the last reading of the wall clock.
MaxClock == 3
\* Calendar dates are the days 1..MaxDate.
MaxDate == 2

\* ------------------------------------------------------------- value sets
\* Python's None, where a project dict is expected.
None == [none |-> TRUE]

\* Python's None, where a task id is expected (uuids are counted from 1).
NoTaskId == 0

\* Task names typed in the form, the table or a sheet.
TaskNames == {"A", "B"}

\* A name typed in a dependency cell that names no task.
NoSuchName == "Z"

\* Project names typed in the header text input.
ProjectNames == {"P"}

Dates == 1..MaxDate

StatusOptions == <<"Non démarré", "En cours", "Terminé", "En retard">>

PriorityOptions == <<"Basse", "Moyenne", "Haute", "Critique">>

\* The (resource, status, priority, description) combinations entered.
Attrs ==
    { [resource |-> "r1", status |-> StatusOptions[2],
       priority |-> PriorityOptions[2], description |-> ""],
      [resource |-> "r2", status |-> StatusOptions[3],
       priority |-> PriorityOptions[4], description |-> "d"] }

\* --------------------------------------------------------------- helpers
Range(s) == { s[i] : i \in 1..Len(s) }

\* Index of the first element of tasks whose id is id, 0 when there is none
\* (the "for task in tasks: if task['id'] == ...: break" loops).
IndexOfId(tasks, id) ==
    IF \E i \in 1..Len(tasks) : tasks[i].id = id
    THEN CHOOSE i \in 1..Len(tasks) :
            /\ tasks[i].id = id
            /\ \A j \in 1..(i - 1) : tasks[j].id /= id
    ELSE 0

\* Index of the first element of tasks whose name is name, 0 when none.
IndexOfName(tasks, name) ==
    IF \E i \in 1..Len(tasks) : tasks[i].name = name
    THEN CHOOSE i \in 1..Len(tasks) :
            /\ tasks[i].name = name
            /\ \A j \in 1..(i - 1) : tasks[j].name /= name
    ELSE 0

\* A dict built by successive assignment d[key(x)] = val(x): the last
\* assignment to a key wins.
DictPut(d, k, v) == [x \in (DOMAIN d) \cup {k} |-> IF x = k THEN v ELSE d[x]]

EmptyDict == [x \in {} |-> 0]

TaskIds(tasks) == { tasks[i].id : i \in 1..Len(tasks) }

\* A handler that leaves out the assignment to project["updated_at"].
touch_left_out(p, t) == p

\* project["updated_at"] = datetime.now().isoformat(), at clock reading t.
touch(p, t) == [p EXCEPT !.updated_at = t]

\* Whether resolving the requested names or ids left one of them out.
Dropped(requested, resolved) == Len(resolved) < Len(requested)

\* ------------------------------------------------------------- variables
VARIABLES
    store,            \* data/projects: the set of stored project documents
    projects,         \* st.session_state.projects: ids listed in the sidebar
    current_project,  \* st.session_state.current_project
    project,          \* the dict main() binds at "project = current_project"
    show_task_form,   \* st.session_state.show_task_form
    edit_task_id,     \* st.session_state.edit_task_id
    now,              \* the wall clock read by datetime.now()
    uuid,             \* number of uuid4() values drawn so far
    op,               \* the handler that ran last, what it wrote and showed
    export,           \* a call of export_gantt_as_image: its position and result
    stats,            \* a call of calculate_project_stats: its frame and result
    view,             \* a run of main() over a project: table, filters, chart
    edit,             \* a call of update_tasks_from_dataframe and the rerun after
    upload,           \* an uploaded sheet: its validation and its import
    shared            \* data/projects as two sessions use it, and their copies

vars == << store, projects, current_project, project, show_task_form,
           edit_task_id, now, uuid, op, export, stats, view, edit, upload, shared >>

\* The variables of the session of app_fixed.py.
session == << store, projects, current_project, project, show_task_form,
             edit_task_id, now, uuid, op >>

\* ------------------------------------------------- data_manager.DataManager
\* Outcomes of writing a project file: TRUE the file is written, FALSE
\* open() raises and save_project returns False.
SaveOutcomes == {TRUE, FALSE}

\* save_project: the file <id>.json is replaced by the document.
save_project(st, p, ok) ==
    IF ok THEN { d \in st : d.id /= p.id } \cup {p} ELSE st

\* load_project: the document stored under project_id, None when absent.
load_project(st, project_id) ==
    IF \E d \in st : d.id = project_id
    THEN CHOOSE d \in st : d.id = project_id
    ELSE None

\* load_all_projects, as far as the sidebar uses it: the ids on disk.
load_all_projects(st) == { d.id : d \in st }

\* delete_project: the file is removed when it exists.
delete_project(st, project_id) == { d \in st : d.id /= project_id }

\* The inner loops with an id that matches no task shown as an empty name.
dependency_names_unskipped(tasks, deps) ==
    [ k \in 1..Len(deps) |->
        IF IndexOfId(tasks, deps[k]) = 0 THEN ""
        ELSE tasks[IndexOfId(tasks, deps[k])].name ]

\* The names a task's dependency ids resolve to, in stored order, skipping
\* ids that match no task (project_to_dataframe, inner loops).
dependency_names(tasks, deps) ==
    LET F[k \in 0..Len(deps)] ==
            IF k = 0 THEN << >>
            ELSE LET i == IndexOfId(tasks, deps[k])
                 IN  IF i = 0 THEN F[k - 1]
                     ELSE Append(F[k - 1], tasks[i].name)
    IN  F[Len(deps)]

\* The difference of the two dates, the last day not counted.
duration_days_exclusive(start_date, end_date) == end_date - start_date

\* (df["Date de fin"] - df["Date de début"]).dt.days + 1, for one row.
duration_days(start_date, end_date) == (end_date - start_date) + 1

\* project_to_dataframe: one row per task.  The "Dépendances" cell is the
\* ", ".join of the names, held as the sequence of its comma separated
\* pieces; "Durée" is recomputed from the two dates.
project_to_dataframe(p) ==
    IF p = None THEN << >>
    ELSE [ i \in 1..Len(p.tasks) |->
            LET task == p.tasks[i]
            IN  [ ID |-> task.id,
                  name |-> task.name,
                  start_date |-> task.start_date,
                  end_date |-> task.end_date,
                  resource |-> task.resource,
                  status |-> task.status,
                  priority |-> task.priority,
                  dependencies |-> dependency_names(p.tasks, task.dependencies),
                  description |-> task.description,
                  duration |-> duration_days(task.start_date, task.end_date) ] ]

\* task_name_to_id = {task["name"]: task["id"] for task in tasks}.
task_name_to_id(tasks) ==
    LET F[k \in 0..Len(tasks)] ==
            IF k = 0 THEN EmptyDict
            ELSE DictPut(F[k - 1], tasks[k].name, tasks[k].id)
    IN  F[Len(tasks)]

\* The ids of the names of a dependency cell that are keys of the dict.
cell_to_ids(dict, cell) ==
    LET F[k \in 0..Len(cell)] ==
            IF k = 0 THEN << >>
            ELSE IF cell[k] \in DOMAIN dict
                 THEN Append(F[k - 1], dict[cell[k]])
                 ELSE F[k - 1]
    IN  F[Len(cell)]

\* The body of the row loop of update_tasks_from_dataframe: the first task
\* whose id is the row's ID takes every field of the row.
update_row(tasks, dict, row) ==
    LET i == IndexOfId(tasks, row.ID)
    IN  IF i = 0 THEN tasks
        ELSE [ tasks EXCEPT ![i] =
                 [ id |-> tasks[i].id,
                   name |-> row.name,
                   start_date |-> row.start_date,
                   end_date |-> row.end_date,
                   resource |-> row.resource,
                   status |-> row.status,
                   priority |-> row.priority,
                   dependencies |-> cell_to_ids(dict, row.dependencies),
                   description |-> row.description ] ]

\* update_tasks_from_dataframe up to the save: the rows are applied in
\* order, names resolved against the dict built before the first row.
update_tasks_from_dataframe(tasks, df) ==
    LET dict == task_name_to_id(tasks)
        F[k \in 0..Len(df)] ==
            IF k = 0 THEN tasks ELSE update_row(F[k - 1], dict, df[k])
    IN  F[Len(df)]

\* task_ids of create_project_from_dataframe: one uuid per row, stored under
\* the row's name; base is the number of uuids drawn before the first row.
import_task_ids(df, base) ==
    LET F[k \in 0..Len(df)] ==
            IF k = 0 THEN EmptyDict
            ELSE DictPut(F[k - 1], df[k].name, base + k)
    IN  F[Len(df)]

\* The dependency resolution of create_project_from_dataframe: the pieces
\* that are non-empty and keys of task_ids.
import_dependencies(dict, cell) ==
    LET F[k \in 0..Len(cell)] ==
            IF k = 0 THEN << >>
            ELSE IF cell[k] /= "" /\ cell[k] \in DOMAIN dict
                 THEN Append(F[k - 1], dict[cell[k]])
                 ELSE F[k - 1]
    IN  F[Len(cell)]

\* create_project_from_dataframe: the project built from the rows of a
\* sheet; u is the number of uuids drawn before the call, t the clock.
create_project_from_dataframe(df, project_name, u, t) ==
    LET task_ids == import_task_ids(df, u + 1)
    IN  [ id |-> u + 1,
          name |-> project_name,
          created_at |-> t,
          updated_at |-> t,
          tasks |-> [ i \in 1..Len(df) |->
                [ id |-> task_ids[df[i].name],
                  name |-> df[i].name,
                  start_date |-> df[i].start_date,
                  end_date |-> df[i].end_date,
                  resource |-> df[i].resource,
                  status |-> df[i].status,
                  priority |-> df[i].priority,
                  dependencies |-> import_dependencies(task_ids, df[i].dependencies),
                  description |-> df[i].description ] ] ]

\* ------------------------------------------------------------------ utils
\* The canonical column names, and for each the headers accepted for it.
possible_names(std_col) ==
    CASE std_col = "Tâche" -> {"Tâche", "Tache", "Task", "Nom", "Name"}
      [] std_col = "Date de début" ->
            {"Date de début", "Date début", "Start Date", "Début", "Start"}
      [] std_col = "Date de fin" -> {"Date de fin", "Date fin", "End Date", "Fin", "End"}
      [] std_col = "Responsable" ->
            {"Responsable", "Resource", "Ressource", "Assigned To", "Assigné à"}
      [] std_col = "Statut" -> {"Statut", "Status", "État", "State"}
      [] std_col = "Priorité" -> {"Priorité", "Priority", "Importance"}
      [] std_col = "Dépendances" ->
            {"Dépendances", "Dependencies", "Dependances", "Prédécesseurs"}
      [] std_col = "Description" -> {"Description", "Notes", "Commentaire", "Details"}

\* column_mapping of create_project_from_dataframe.
column_mapping ==
    [ std_col \in {"Tâche", "Date de début", "Date de fin", "Responsable", "Statut",
                   "Priorité", "Dépendances", "Description"} |-> possible_names(std_col) ]

\* required_columns of create_project_from_dataframe.
required_columns ==
    {"Tâche", "Date de début", "Date de fin", "Responsable", "Statut", "Priorité"}

\* column_mapping of validate_excel_file: the same lists, for three columns.
validate_column_mapping ==
    [ std_col \in {"Tâche", "Date de début", "Date de fin"} |-> possible_names(std_col) ]

\* A date cell whose text pd.to_datetime cannot parse, and the NaT that
\* errors='coerce' puts in its place.
UnparseableDate == 0 - 1

NaT == 0

to_datetime(cell) == IF cell \in Dates THEN cell ELSE NaT

\* A sheet is its set of column headers and its rows, each row a function
\* from the headers to the cells.  The cell of a row of the table under a
\* canonical column:
FieldCell(r, std_col) ==
    CASE std_col = "Tâche" -> r.name
      [] std_col = "Date de début" -> r.start_date
      [] std_col = "Date de fin" -> r.end_date
      [] std_col = "Responsable" -> r.resource
      [] std_col = "Statut" -> r.status
      [] std_col = "Priorité" -> r.priority
      [] std_col = "Dépendances" -> r.dependencies
      [] std_col = "Description" -> r.description

\* The sheet with the canonical headers over the given rows.
CanonicalSheet(df) ==
    [ columns |-> DOMAIN column_mapping,
      rows |-> [ i \in 1..Len(df) |->
                   [ c \in DOMAIN column_mapping |-> FieldCell(df[i], c) ] ] ]

\* The rename loops: every column whose header is among the names of a
\* canonical column takes the canonical name.
rename_columns(sheet, mapping) ==
    LET Std(c) == IF \E std_col \in DOMAIN mapping : c \in mapping[std_col]
                  THEN CHOOSE std_col \in DOMAIN mapping : c \in mapping[std_col]
                  ELSE c
        columns == { Std(c) : c \in sheet.columns }
    IN  [ columns |-> columns,
          rows |-> [ i \in 1..Len(sheet.rows) |->
                       [ d \in columns |->
                           sheet.rows[i][CHOOSE c \in sheet.columns : Std(c) = d] ] ] ]

\* The two date columns converted with pd.to_datetime(errors='coerce').
dates_converted(sheet) ==
    [ sheet EXCEPT !.rows =
        [ i \in 1..Len(sheet.rows) |->
            [ c \in sheet.columns |->
                IF c \in {"Date de début", "Date de fin"}
                THEN to_datetime(sheet.rows[i][c]) ELSE sheet.rows[i][c] ] ] ]

\* The validation without the comparison of the two dates.
validate_excel_file_unordered(sheet) ==
    LET missing_columns ==
            { req_col \in DOMAIN validate_column_mapping :
                validate_column_mapping[req_col] \cap sheet.columns = {} }
        renamed == rename_columns(sheet, validate_column_mapping)
        df == dates_converted(renamed)
    IN  IF missing_columns /= {}
        THEN [ is_valid |-> FALSE, message |-> "Colonnes manquantes", df |-> sheet ]
        ELSE IF ~ ({"Date de début", "Date de fin"} \subseteq renamed.columns)
        THEN [ is_valid |-> FALSE, message |-> "Erreur lors du traitement des dates",
               df |-> renamed ]
        ELSE IF \E i \in 1..Len(df.rows) :
                    df.rows[i]["Date de début"] = NaT \/ df.rows[i]["Date de fin"] = NaT
        THEN [ is_valid |-> FALSE, message |-> "Certaines dates sont invalides", df |-> df ]
        ELSE [ is_valid |-> TRUE, message |-> "Le fichier est valide", df |-> df ]

\* validate_excel_file: (is_valid, message), and the frame as the function
\* leaves it, its columns renamed and its dates converted in place.  The
\* message about missing columns is held without the list of the columns.
validate_excel_file(sheet) ==
    LET missing_columns ==
            { req_col \in DOMAIN validate_column_mapping :
                validate_column_mapping[req_col] \cap sheet.columns = {} }
        renamed == rename_columns(sheet, validate_column_mapping)
        df == dates_converted(renamed)
    IN  IF missing_columns /= {}
        THEN [ is_valid |-> FALSE, message |-> "Colonnes manquantes", df |-> sheet ]
        ELSE IF ~ ({"Date de début", "Date de fin"} \subseteq renamed.columns)
        THEN [ is_valid |-> FALSE, message |-> "Erreur lors du traitement des dates",
               df |-> renamed ]
        ELSE IF \E i \in 1..Len(df.rows) :
                    df.rows[i]["Date de début"] = NaT \/ df.rows[i]["Date de fin"] = NaT
        THEN [ is_valid |-> FALSE, message |-> "Certaines dates sont invalides", df |-> df ]
        ELSE IF \E i \in 1..Len(df.rows) :
                    df.rows[i]["Date de fin"] < df.rows[i]["Date de début"]
        THEN [ is_valid |-> FALSE,
               message |-> "Certaines dates de fin sont antérieures aux dates de début",
               df |-> df ]
        ELSE [ is_valid |-> TRUE, message |-> "Le fichier est valide", df |-> df ]

\* The frame create_project_from_dataframe is given, its columns left as
\* they are.
standardized_df_as_given(sheet) == sheet

\* standardized_df of create_project_from_dataframe: the columns renamed
\* after column_mapping.
standardized_df(sheet) == rename_columns(sheet, column_mapping)

\* The required columns standardized_df lacks: a ValueError when not empty.
missing_required(sheet) == required_columns \ standardized_df(sheet).columns

\* The rows create_project_from_dataframe builds the tasks from: the cells
\* under the canonical columns, the two optional columns added when absent.
standardized_rows(sheet) ==
    LET df == standardized_df(sheet)
    IN  [ i \in 1..Len(df.rows) |->
            [ name |-> df.rows[i]["Tâche"],
              start_date |-> df.rows[i]["Date de début"],
              end_date |-> df.rows[i]["Date de fin"],
              resource |-> df.rows[i]["Responsable"],
              status |-> df.rows[i]["Statut"],
              priority |-> df.rows[i]["Priorité"],
              dependencies |-> IF "Dépendances" \in df.columns
                               THEN df.rows[i]["Dépendances"] ELSE << >>,
              description |-> IF "Description" \in df.columns
                              THEN df.rows[i]["Description"] ELSE "" ] ]

\* ------------------------------------------------------------- app_fixed
\* old_to_new_ids of duplicate_project: task k of the list takes the k-th
\* uuid drawn after base, recorded under its old id.
old_to_new_ids(tasks, base) ==
    LET F[k \in 0..Len(tasks)] ==
            IF k = 0 THEN EmptyDict
            ELSE DictPut(F[k - 1], tasks[k].id, base + k)
    IN  F[Len(tasks)]

\* The dependency loop without its "if dep_id in old_to_new_ids": an id
\* the dict does not hold is kept as it is.
updated_deps_keeping(dict, deps) ==
    [ k \in 1..Len(deps) |->
        IF deps[k] \in DOMAIN dict THEN dict[deps[k]] ELSE deps[k] ]

\* The dependency loop of duplicate_project: ids found in the dict are
\* translated, the others dropped.
updated_deps(dict, deps) ==
    LET F[k \in 0..Len(deps)] ==
            IF k = 0 THEN << >>
            ELSE IF deps[k] \in DOMAIN dict
                 THEN Append(F[k - 1], dict[deps[k]])
                 ELSE F[k - 1]
    IN  F[Len(deps)]

\* The task dicts after the two loops of duplicate_project.  The loops
\* write into the dicts of new_project["tasks"], which dict.copy() shares
\* with the project that was copied.
duplicated_tasks(tasks, base) ==
    LET dict == old_to_new_ids(tasks, base)
    IN  [ k \in 1..Len(tasks) |->
            [ tasks[k] EXCEPT !.id = base + k,
                              !.dependencies = updated_deps(dict, @) ] ]

\* The form's translation of the selected names into ids: for each name the
\* first task of the project with that name.
dependency_ids(tasks, task_dependencies) ==
    LET F[k \in 0..Len(task_dependencies)] ==
            IF k = 0 THEN << >>
            ELSE LET i == IndexOfName(tasks, task_dependencies[k])
                 IN  IF i = 0 THEN F[k - 1]
                     ELSE Append(F[k - 1], tasks[i].id)
    IN  F[Len(task_dependencies)]

\* The task the form edits: the first task whose id is edit_task_id, None
\* when edit_task_id is unset or names no task.
edit_task_data(p, id) ==
    IF id = NoTaskId THEN None
    ELSE IF IndexOfId(p.tasks, id) = 0 THEN None
         ELSE p.tasks[IndexOfId(p.tasks, id)]

\* The names of a sequence of rows, one occurrence of name removed
\* (list.remove drops the first occurrence).
ListRemove(names, name) ==
    LET i == CHOOSE j \in 1..Len(names) :
                /\ names[j] = name
                /\ \A l \in 1..(j - 1) : names[l] /= name
    IN  [ k \in 1..(Len(names) - 1) |-> IF k < i THEN names[k] ELSE names[k + 1] ]

\* available_tasks of the form: the task names of the table, without one
\* occurrence of the edited task's own name.
available_tasks(p, etd) ==
    LET names == [ i \in 1..Len(p.tasks) |-> p.tasks[i].name ]
    IN  IF etd /= None /\ etd.name \in Range(names)
        THEN ListRemove(names, etd.name)
        ELSE names

\* ------------------------------------------------------------ input sets
\* Contents of a dependency cell of the table or of a sheet, as the pieces
\* of the comma separated text.
Cells == { << >>, <<"A">>, <<NoSuchName>> }

\* What a multiselect over the options returns: up to two distinct options.
Selections(options) ==
    { << >> } \cup { <<n>> : n \in Range(options) }
              \cup { <<n, m>> : <<n, m>> \in
                        { pr \in Range(options) \X Range(options) : pr[1] /= pr[2] } }

\* The (start, end) pairs of the rows of a sheet: a period, and a period
\* whose end is before its start.
SheetDates == { <<1, MaxDate>>, <<MaxDate, 1>> }

\* The rows of a sheet: a name, two dates, a dependency cell.
SheetRows ==
    { [ name |-> n, start_date |-> d[1], end_date |-> d[2], resource |-> a.resource,
        status |-> a.status, priority |-> a.priority, dependencies |-> c,
        description |-> a.description ] :
      n \in TaskNames, d \in SheetDates, c \in Cells,
      a \in { x \in Attrs : x.resource = "r1" } }

\* The sheets uploaded: one to MaxTasks rows.
Sheets == UNION { [1..k -> SheetRows] : k \in 1..MaxTasks }

\* What the user can turn one row of the table into by retyping one cell.
RowEdits(r, ids) ==
    ( { [r EXCEPT !.name = n] : n \in TaskNames }
        \cup { [r EXCEPT !.start_date = s, !.end_date = e] : s \in Dates, e \in Dates }
        \cup { [r EXCEPT !.dependencies = c] : c \in Cells }
        \cup { [r EXCEPT !.ID = i] : i \in ids }
        \cup { [r EXCEPT !.resource = a.resource, !.status = a.status,
                         !.priority = a.priority, !.description = a.description] :
               a \in Attrs } ) \ {r}

\* The rows of the table at the positions of keep, in table order.
KeptRows(rows, keep) ==
    LET F[k \in 0..Len(rows)] ==
            IF k = 0 THEN << >>
            ELSE IF k \in keep THEN Append(F[k - 1], rows[k]) ELSE F[k - 1]
    IN  F[Len(rows)]

\* The frames the table editor hands back when it differs from the table
\* shown: the filters keep the rows at the positions of keep, and one cell
\* of the kept row k has been retyped.
EditedFrames(rows, ids) ==
    { KeptRows([rows EXCEPT ![k] = r], keep) :
        <<k, keep, r>> \in
          { x \in (1..Len(rows)) \X (SUBSET (1..Len(rows))) \X
                  UNION { RowEdits(rows[j], ids) : j \in 1..Len(rows) } :
              /\ x[1] \in x[2]
              /\ x[3] \in RowEdits(rows[x[1]], ids) } }

\* --------------------------------------------------------------- actions
SessionInit ==
    /\ store = {}
    /\ projects = {}
    /\ current_project = None
    /\ project = None
    /\ show_task_form = FALSE
    /\ edit_task_id = NoTaskId
    /\ now = 0
    /\ uuid = 0
    /\ op = [name |-> "init", wrote |-> {}, saved |-> TRUE, message |-> "", dropped |-> FALSE]

\* create_new_project (sidebar button, home page button).
CreateNewProject ==
    /\ now < MaxClock
    /\ \E ok \in SaveOutcomes :
        LET p == [ id |-> uuid + 1, name |-> <<"Nouveau projet">>,
                   created_at |-> now + 1, updated_at |-> now + 1,
                   tasks |-> << >> ]
        IN  /\ current_project' = p
            /\ project' = p
            /\ store' = save_project(store, p, ok)
            /\ projects' = load_all_projects(store')
            /\ op' = [name |-> "create_new_project", wrote |-> {}, saved |-> ok,
                      message |-> "", dropped |-> FALSE]
    /\ uuid' = uuid + 1
    /\ now' = now + 1
    /\ UNCHANGED << export, stats, view, edit, upload, shared >>
    /\ UNCHANGED << show_task_form, edit_task_id >>

\* load_project(project_id), from a button of the sidebar list.
LoadProject ==
    /\ now < MaxClock
    /\ \E project_id \in projects :
        /\ current_project' = load_project(store, project_id)
        /\ project' = current_project'
    /\ show_task_form' = FALSE
    /\ edit_task_id' = NoTaskId
    /\ now' = now + 1
    /\ UNCHANGED << export, stats, view, edit, upload, shared >>
    /\ op' = [name |-> "load_project", wrote |-> {}, saved |-> TRUE,
              message |-> "", dropped |-> FALSE]
    /\ UNCHANGED << store, projects, uuid >>

\* delete_project(project_id), from a button of the sidebar list.
DeleteProject ==
    /\ now < MaxClock
    /\ \E project_id \in projects :
        /\ store' = delete_project(store, project_id)
        /\ projects' = load_all_projects(store')
        /\ current_project' =
              IF current_project /= None /\ current_project.id = project_id
              THEN None ELSE current_project
        /\ project' = current_project'
    /\ now' = now + 1
    /\ UNCHANGED << export, stats, view, edit, upload, shared >>
    /\ op' = [name |-> "delete_project", wrote |-> {}, saved |-> TRUE,
              message |-> "", dropped |-> FALSE]
    /\ UNCHANGED << show_task_form, edit_task_id, uuid >>

\* new_project of duplicate_project: a shallow copy of src with a new id,
\* name and timestamps, whose task dicts have been given new ids.
new_project(src, u, t) ==
    [ id |-> u + 1,
      name |-> Append(src.name, "(copie)"),
      created_at |-> t,
      updated_at |-> t,
      tasks |-> duplicated_tasks(src.tasks, u + 1) ]

\* The dict that was copied, after duplicate_project: its own keys are
\* untouched, its "tasks" list is the one the loops wrote into.
copied_project(src, u) ==
    [ src EXCEPT !.tasks = duplicated_tasks(src.tasks, u + 1) ]

\* The sidebar's duplicate button: the stored project is loaded, made
\* current and duplicated; main() then binds the copy.
DuplicateFromSidebar ==
    /\ now < MaxClock
    /\ \E project_id \in projects, ok \in SaveOutcomes :
        LET src == load_project(store, project_id)
            new == new_project(src, uuid, now + 1)
        IN  /\ src /= None
            /\ store' = save_project(store, new, ok)
            /\ projects' = load_all_projects(store')
            /\ current_project' = new
            /\ project' = new
            /\ uuid' = uuid + 1 + Len(src.tasks)
            /\ op' = [name |-> "duplicate_project",
                      wrote |-> 1..Len(new.tasks), saved |-> ok,
                      message |-> "",
                      dropped |-> \E k \in 1..Len(new.tasks) :
                          Dropped(src.tasks[k].dependencies, new.tasks[k].dependencies)]
    /\ now' = now + 1
    /\ UNCHANGED << export, stats, view, edit, upload, shared >>
    /\ UNCHANGED << show_task_form, edit_task_id >>

\* The header's duplicate button: main() has bound project to the current
\* project, duplicate_project makes the copy current, and the rest of the
\* run goes on with the dict that was copied.
DuplicateFromHeader ==
    /\ now < MaxClock
    /\ current_project /= None
    /\ \E ok \in SaveOutcomes :
        LET src == current_project
            new == new_project(src, uuid, now + 1)
        IN  /\ store' = save_project(store, new, ok)
            /\ projects' = load_all_projects(store')
            /\ current_project' = new
            /\ project' = copied_project(current_project, uuid)
            /\ op' = [name |-> "duplicate_project",
                      wrote |-> 1..Len(new.tasks), saved |-> ok,
                      message |-> "",
                      dropped |-> \E k \in 1..Len(new.tasks) :
                          Dropped(src.tasks[k].dependencies, new.tasks[k].dependencies)]
    /\ uuid' = uuid + 1 + Len(current_project.tasks)
    /\ now' = now + 1
    /\ UNCHANGED << export, stats, view, edit, upload, shared >>
    /\ UNCHANGED << show_task_form, edit_task_id >>

\* toggle_task_form, from the "Nouvelle tâche" button.
ToggleTaskForm ==
    /\ now < MaxClock
    /\ current_project /= None
    /\ show_task_form' = ~ show_task_form
    /\ edit_task_id' = NoTaskId
    /\ project' = current_project
    /\ now' = now + 1
    /\ UNCHANGED << export, stats, view, edit, upload, shared >>
    /\ op' = [name |-> "toggle_task_form", wrote |-> {}, saved |-> TRUE,
              message |-> "", dropped |-> FALSE]
    /\ UNCHANGED << store, projects, current_project, uuid >>

\* edit_task(task_id), for a task of the current project.
EditTask ==
    /\ now < MaxClock
    /\ current_project /= None
    /\ \E task_id \in TaskIds(current_project.tasks) :
        edit_task_id' = task_id
    /\ show_task_form' = TRUE
    /\ project' = current_project
    /\ now' = now + 1
    /\ UNCHANGED << export, stats, view, edit, upload, shared >>
    /\ op' = [name |-> "edit_task", wrote |-> {}, saved |-> TRUE,
              message |-> "", dropped |-> FALSE]
    /\ UNCHANGED << store, projects, current_project, uuid >>

\* The task list delete_task leaves: the tasks whose id is not task_id.
delete_task(tasks, task_id) ==
    SelectSeq(tasks, LAMBDA task : task.id /= task_id)

\* delete_task(task_id), for a task of the current project.
DeleteTask ==
    /\ now < MaxClock
    /\ current_project /= None
    /\ \E task_id \in TaskIds(current_project.tasks), ok \in SaveOutcomes :
        LET p == touch([ current_project EXCEPT !.tasks = delete_task(@, task_id) ],
                       now + 1)
        IN  /\ current_project' = p
            /\ project' = p
            /\ store' = save_project(store, p, ok)
            /\ op' = [name |-> "delete_task", wrote |-> {}, saved |-> ok,
                      message |-> "", dropped |-> FALSE, task_id |-> task_id]
    /\ now' = now + 1
    /\ UNCHANGED << export, stats, view, edit, upload, shared >>
    /\ UNCHANGED << projects, show_task_form, edit_task_id, uuid >>

\* The header's name input holds a name other than the project's.
Rename ==
    /\ now < MaxClock
    /\ current_project /= None
    /\ \E n \in ProjectNames, ok \in SaveOutcomes :
        LET p == touch([ current_project EXCEPT !.name = <<n>> ], now + 1)
        IN  /\ <<n>> /= current_project.name
            /\ current_project' = p
            /\ project' = p
            /\ store' = save_project(store, p, ok)
            /\ op' = [name |-> "rename", wrote |-> {}, saved |-> ok,
                      message |-> "", dropped |-> FALSE]
    /\ now' = now + 1
    /\ UNCHANGED << export, stats, view, edit, upload, shared >>
    /\ UNCHANGED << projects, show_task_form, edit_task_id, uuid >>

\* The task dict the form writes: the fields of the form, under the id.
form_task(id, task_name, start, end, a, deps) ==
    [ id |-> id, name |-> task_name, start_date |-> start, end_date |-> end,
      resource |-> a.resource, status |-> a.status, priority |-> a.priority,
      dependencies |-> deps, description |-> a.description ]

\* The task list after the form's submit branch: in edit mode the first
\* task whose id is edit_task_id is rewritten, otherwise a task with a
\* fresh id is appended.
form_submit(tasks, etd, eid, new_id, task_name, start, end, a, deps) ==
    IF etd /= None
    THEN [ tasks EXCEPT ![IndexOfId(tasks, eid)] =
              form_task(tasks[IndexOfId(tasks, eid)].id, task_name, start, end, a, deps) ]
    ELSE Append(tasks, form_task(new_id, task_name, start, end, a, deps))

\* The task form is submitted.  The end date input has min_value = the
\* start date; the options of the dependency multiselect are
\* available_tasks.
FormSubmit ==
    /\ now < MaxClock
    /\ current_project /= None
    /\ show_task_form
    /\ LET p == current_project
           etd == edit_task_data(p, edit_task_id)
           options == IF p.tasks = << >> THEN << >> ELSE available_tasks(p, etd)
       IN  \E task_name \in TaskNames, start \in Dates, end \in Dates,
              a \in Attrs, task_dependencies \in Selections(options),
              ok \in SaveOutcomes :
              LET deps == dependency_ids(p.tasks, task_dependencies)
                  tasks == form_submit(p.tasks, etd, edit_task_id, uuid + 1,
                                       task_name, start, end, a, deps)
                  q == touch([ p EXCEPT !.tasks = tasks ], now + 1)
              IN  /\ end >= start
                  /\ etd = None => Len(p.tasks) < MaxTasks
                  /\ current_project' = q
                  /\ project' = q
                  /\ store' = save_project(store, q, ok)
                  /\ uuid' = IF etd = None THEN uuid + 1 ELSE uuid
                  /\ op' = [name |-> IF etd = None THEN "add_task" ELSE "save_task",
                            wrote |-> IF etd = None THEN {Len(tasks)}
                                      ELSE {IndexOfId(tasks, edit_task_id)},
                            saved |-> ok,
                            message |-> "", dropped |-> Dropped(task_dependencies, deps)]
    /\ show_task_form' = FALSE
    /\ edit_task_id' = NoTaskId
    /\ now' = now + 1
    /\ UNCHANGED << export, stats, view, edit, upload, shared >>
    /\ UNCHANGED projects

\* The task form is cancelled.
FormCancel ==
    /\ now < MaxClock
    /\ current_project /= None
    /\ show_task_form
    /\ show_task_form' = FALSE
    /\ edit_task_id' = NoTaskId
    /\ project' = current_project
    /\ now' = now + 1
    /\ UNCHANGED << export, stats, view, edit, upload, shared >>
    /\ op' = [name |-> "cancel", wrote |-> {}, saved |-> TRUE,
              message |-> "", dropped |-> FALSE]
    /\ UNCHANGED << store, projects, current_project, uuid >>

\* The indices of the tasks the rows of a frame are written to.
rows_written(tasks, df) ==
    { IndexOfId(tasks, df[k].ID) : k \in 1..Len(df) } \ {0}

\* "Enregistrer les modifications": the edited table differs from the one
\* shown and is written back with update_tasks_from_dataframe.
SaveTableEdits ==
    /\ now < MaxClock
    /\ current_project /= None
    /\ LET p == current_project
           rows == project_to_dataframe(p)
       IN  \E df \in EditedFrames(rows, TaskIds(p.tasks)), ok \in SaveOutcomes :
              LET q == touch([ p EXCEPT !.tasks = update_tasks_from_dataframe(@, df) ],
                             now + 1)
              IN  /\ current_project' = q
                  /\ project' = q
                  /\ store' = save_project(store, q, ok)
                  /\ op' = [name |-> "update_tasks", saved |-> ok,
                            wrote |-> rows_written(p.tasks, df),
                            message |-> "Modifications enregistrées !",
                            dropped |-> \E k \in 1..Len(df) :
                                /\ IndexOfId(p.tasks, df[k].ID) /= 0
                                /\ Dropped(df[k].dependencies,
                                           cell_to_ids(task_name_to_id(p.tasks),
                                                       df[k].dependencies))]
    /\ now' = now + 1
    /\ UNCHANGED << export, stats, view, edit, upload, shared >>
    /\ UNCHANGED << projects, show_task_form, edit_task_id, uuid >>

\* The sheets validate_excel_file accepts, and those it rejects.
ValidSheets ==
    { df : df \in { x \in Sheets : validate_excel_file(CanonicalSheet(x)).is_valid } }

InvalidSheets == { df : df \in Sheets \ ValidSheets }

\* A sheet is uploaded, passes validate_excel_file and is imported.
Import ==
    /\ now < MaxClock
    /\ \E df \in ValidSheets, ok \in SaveOutcomes :
        LET p == create_project_from_dataframe(df, <<"Projet importé">>, uuid, now + 1)
        IN  /\ store' = save_project(store, p, ok)
            /\ projects' = load_all_projects(store')
            /\ current_project' = p
            /\ project' = p
            /\ uuid' = uuid + 1 + Len(df)
            /\ op' = [name |-> "import", wrote |-> 1..Len(df), saved |-> ok,
                      message |-> "Projet importé avec succès !",
                      dropped |-> \E k \in 1..Len(df) :
                          Dropped(df[k].dependencies, p.tasks[k].dependencies)]
    /\ now' = now + 1
    /\ UNCHANGED << export, stats, view, edit, upload, shared >>
    /\ UNCHANGED << show_task_form, edit_task_id >>

\* A sheet is uploaded and validate_excel_file rejects it: the error is
\* shown and nothing is created.
ImportRejected ==
    /\ now < MaxClock
    /\ InvalidSheets /= {}
    /\ project' = current_project
    /\ now' = now + 1
    /\ UNCHANGED << export, stats, view, edit, upload, shared >>
    /\ op' = [name |-> "import_rejected", wrote |-> {}, saved |-> TRUE,
              message |-> "Erreur dans le fichier", dropped |-> FALSE]
    /\ UNCHANGED << store, projects, current_project, show_task_form,
                    edit_task_id, uuid >>


\* ------------------------------------------------ gantt_visualizer_fixed
\* The names defined in the body of class GanttVisualizer.  The def of
\* export_gantt_as_image starts at column 0, after the class body.
GanttVisualizerMethods == {"__init__", "create_gantt_chart"}

\* The names defined at the top level of the module.
ModuleFunctions == {"export_gantt_as_image"}

\* The renderer calls of export_gantt_as_image that can raise.
Renderers == {"svg", "png", "html", "json"}

\* The chain with the PNG attempt missing from the first handler.
on_failure_without_png(stage) ==
    CASE stage = "svg" -> "html"
      [] stage = "png" -> "html"
      [] stage = "html" -> "json"
      [] stage = "json" -> "error"

\* The except clause a failed stage falls into: the try blocks are nested,
\* each in the handler of the one before.
on_failure(stage) ==
    CASE stage = "svg" -> "png"
      [] stage = "png" -> "html"
      [] stage = "html" -> "json"
      [] stage = "json" -> "error"

\* What a stage returns when its renderer call does not raise.
stage_result(stage) ==
    CASE stage = "svg" -> [payload |-> "svg image", mime |-> "image/svg+xml"]
      [] stage = "png" -> [payload |-> "png image", mime |-> "image/png"]
      [] stage = "html" -> [payload |-> "interactive html", mime |-> "text/html"]
      [] stage = "json" -> [payload |-> "json viewer html", mime |-> "text/html"]
      [] stage = "error" -> [payload |-> "error html", mime |-> "text/html"]

ExportIdle ==
    [ pc |-> "idle", fails |-> {}, scene_empty |-> FALSE, route |-> "none",
      attempts |-> << >>, result |-> None, download |-> None ]

\* One try block of export_gantt_as_image: the stage is attempted; it
\* returns its result, or its renderer raises and the handler is entered.
try_stage(e, stage) ==
    IF stage \in e.fails
    THEN [ e EXCEPT !.attempts = Append(@, stage), !.pc = on_failure(stage) ]
    ELSE [ e EXCEPT !.attempts = Append(@, stage), !.pc = "done",
                    !.result = stage_result(stage) ]

\* The export button of main(): gantt_visualizer.export_gantt_as_image(fig),
\* offered when the filtered table is not empty.  The attribute is looked
\* up on the GanttVisualizer object; a missing attribute raises
\* AttributeError, which nothing in main() catches.
ExportButton ==
    /\ export.pc = "ready"
    /\ ~ export.scene_empty
    /\ export' = IF "export_gantt_as_image" \in GanttVisualizerMethods
                 THEN [ export EXCEPT !.pc = "svg", !.route = "method" ]
                 ELSE [ export EXCEPT !.pc = "raised", !.route = "method" ]
    /\ UNCHANGED << session, stats, view, edit, upload, shared >>

\* export_gantt_as_image(self, fig) called as the module function it is.
ExportCall ==
    /\ export.pc = "ready"
    /\ "export_gantt_as_image" \in ModuleFunctions
    /\ export' = [ export EXCEPT !.pc = "svg", !.route = "function" ]
    /\ UNCHANGED << session, stats, view, edit, upload, shared >>

\* Solution 1: update_layout and to_image(format="svg").
TrySvg ==
    /\ export.pc = "svg"
    /\ export' = try_stage(export, "svg")
    /\ UNCHANGED << session, stats, view, edit, upload, shared >>

\* Solution 2: to_image(format="png").
TryPng ==
    /\ export.pc = "png"
    /\ export' = try_stage(export, "png")
    /\ UNCHANGED << session, stats, view, edit, upload, shared >>

\* Solution 3: to_html.
TryHtml ==
    /\ export.pc = "html"
    /\ export' = try_stage(export, "html")
    /\ UNCHANGED << session, stats, view, edit, upload, shared >>

\* Solution 4: to_dict and json.dumps in a viewer document.
TryJson ==
    /\ export.pc = "json"
    /\ export' = try_stage(export, "json")
    /\ UNCHANGED << session, stats, view, edit, upload, shared >>

\* The last except clause: the static error document, built from a literal.
ErrorDocument ==
    /\ export.pc = "error"
    /\ export' = try_stage(export, "error")
    /\ UNCHANGED << session, stats, view, edit, upload, shared >>

\* The value given as data to st.download_button: a bytes object, or the
\* tuple a function returned.
bytes_object(payload) == [ bytes |-> payload ]

tuple_object(items) == [ tuple |-> items ]

\* st.download_button of the export button, once export_gantt_as_image has
\* returned: img_bytes, the (payload, MIME type) tuple returned, is passed
\* as data, the MIME type and the extension of the file name are literals.
\* The call as main() writes it raises before this statement (ExportButton);
\* the statement is followed for the function called as it is defined.
DownloadButton ==
    /\ export.pc = "done"
    /\ export' = [ export EXCEPT
            !.pc = "offered",
            !.download = [ data |-> tuple_object(<<export.result.payload,
                                                   export.result.mime>>),
                           file_name |-> "_gantt.png",
                           mime |-> "image/png" ] ]
    /\ UNCHANGED << session, stats, view, edit, upload, shared >>

\* ------------------------------------------------------------------ utils
\* The frames calculate_project_stats is applied to: up to MaxRows rows.
MaxRows == 2

StatsRows ==
    { [ status |-> st, priority |-> pr, start_date |-> s, end_date |-> e ] :
      st \in Range(StatusOptions), pr \in {PriorityOptions[2], PriorityOptions[4]},
      s \in Dates, e \in Dates }

StatsFrames == UNION { [1..k -> StatsRows] : k \in 0..MaxRows }

\* df["Date de début"].min() over a frame that is not empty.
min_date(df) ==
    LET F[k \in 1..Len(df)] ==
            IF k = 1 THEN df[1].start_date
            ELSE IF df[k].start_date < F[k - 1] THEN df[k].start_date ELSE F[k - 1]
    IN  F[Len(df)]

\* df["Date de fin"].max() over a frame that is not empty.
max_date(df) ==
    LET F[k \in 1..Len(df)] ==
            IF k = 1 THEN df[1].end_date
            ELSE IF df[k].end_date > F[k - 1] THEN df[k].end_date ELSE F[k - 1]
    IN  F[Len(df)]

\* The difference of the two dates, the last day not counted.
project_duration_exclusive(df) == max_date(df) - min_date(df)

\* (max_date - min_date).days + 1.
project_duration(df) == (max_date(df) - min_date(df)) + 1

\* calculate_project_stats.  completion_rate, the float
\* completed_tasks / total_tasks * 100, is held as the fraction
\* <<numerator, denominator>>.
calculate_project_stats(df) ==
    IF df = << >>
    THEN [ total_tasks |-> 0, completed_tasks |-> 0, completion_rate |-> <<0, 1>>,
           critical_tasks |-> 0, duration |-> 0, delayed_tasks |-> 0 ]
    ELSE LET total_tasks == Len(df)
             completed_tasks == Len(SelectSeq(df, LAMBDA r : r.status = "Terminé"))
         IN  [ total_tasks |-> total_tasks,
               completed_tasks |-> completed_tasks,
               completion_rate |-> IF total_tasks > 0
                                   THEN <<completed_tasks * 100, total_tasks>>
                                   ELSE <<0, 1>>,
               critical_tasks |-> Len(SelectSeq(df, LAMBDA r : r.priority = "Critique")),
               duration |-> project_duration(df),
               delayed_tasks |-> Len(SelectSeq(df, LAMBDA r : r.status = "En retard")) ]

StatsIdle == [ df |-> << >>, result |-> None ]

\* stats = calculate_project_stats(tasks_df).
CalculateStats ==
    /\ stats.result = None
    /\ stats' = [ stats EXCEPT !.result = calculate_project_stats(stats.df) ]
    /\ UNCHANGED << session, export, view, edit, upload, shared >>

\* ------------------------------------------- main(): the table and the chart
\* The dependency lists of the tasks shown: none, the first task, the
\* second and the first, an id no task carries and the first.
DepLists == { << >>, <<1>>, <<2, 1>>, <<MaxTasks + 1, 1>> }

\* The (start, end) pairs of the tasks shown.
Periods == { d \in Dates \X Dates : d[1] <= d[2] }

\* The (resource, status, priority) combinations of the tasks shown.
ViewAttrs ==
    { [resource |-> "r1", status |-> StatusOptions[2], priority |-> PriorityOptions[2]],
      [resource |-> "r1", status |-> StatusOptions[3], priority |-> PriorityOptions[4]],
      [resource |-> "r2", status |-> StatusOptions[2], priority |-> PriorityOptions[4]],
      [resource |-> "r2", status |-> StatusOptions[3], priority |-> PriorityOptions[2]] }

\* The task dicts of the projects shown, but for the id: tasks that differ
\* in name and dependencies, and tasks that differ in dates and attributes.
ViewTasks ==
    { [ name |-> n, start_date |-> 1, end_date |-> MaxDate, resource |-> "r1",
        status |-> StatusOptions[2], priority |-> PriorityOptions[2],
        dependencies |-> d, description |-> "" ] : n \in TaskNames, d \in DepLists }
    \cup
    { [ name |-> "A", start_date |-> d[1], end_date |-> d[2], resource |-> a.resource,
        status |-> a.status, priority |-> a.priority,
        dependencies |-> << >>, description |-> "" ] : d \in Periods, a \in ViewAttrs }

\* The task lists of the projects shown: the i-th task carries the id i.
ViewProjects ==
    UNION { { [ i \in 1..k |->
                [ id |-> i, name |-> f[i].name, start_date |-> f[i].start_date,
                  end_date |-> f[i].end_date, resource |-> f[i].resource,
                  status |-> f[i].status, priority |-> f[i].priority,
                  dependencies |-> f[i].dependencies,
                  description |-> f[i].description ] ] :
              f \in [1..k -> ViewTasks] } : k \in 0..MaxTasks }

\* The tuples st.date_input returns for a range between lo and hi: both
\* ends picked, or only the first.
DateRanges(lo, hi) ==
    { <<s>> : s \in lo..hi } \cup
    { <<r[1], r[2]>> : r \in { x \in (lo..hi) \X (lo..hi) : x[1] <= x[2] } }

\* The values of the four filter widgets over a table: subsets of the
\* values present in each column, and a range inside [min start, max end].
FilterChoices(tasks_df) ==
    [ status_filter : SUBSET { tasks_df[i].status : i \in 1..Len(tasks_df) },
      resource_filter : SUBSET { tasks_df[i].resource : i \in 1..Len(tasks_df) },
      priority_filter : SUBSET { tasks_df[i].priority : i \in 1..Len(tasks_df) },
      date_range : DateRanges(min_date(tasks_df), max_date(tasks_df)) ]

\* The date mask with strict comparisons.
in_period_strict(row, date_range) ==
    Len(date_range) = 2 =>
        /\ row.start_date > date_range[1]
        /\ row.end_date < date_range[2]

\* The date mask: applied only when the range has both ends.
in_period(row, date_range) ==
    Len(date_range) = 2 =>
        /\ row.start_date >= date_range[1]
        /\ row.end_date <= date_range[2]

\* filtered_df: boolean indexing by the three isin masks, then by the date
\* mask; the rows kept stay in table order.
filtered_df(tasks_df, f) ==
    SelectSeq(tasks_df, LAMBDA row :
        /\ row.status \in f.status_filter
        /\ row.resource \in f.resource_filter
        /\ row.priority \in f.priority_filter
        /\ in_period(row, f.date_range))

\* The options of the "Trier par" selectbox.
SortOptions == <<"Date de début", "Date de fin", "Durée", "Responsable", "Priorité">>

\* The strings of the sorted columns, in the order Python compares str.
StringOrder == <<"Basse", "Critique", "Haute", "Moyenne", "r1", "r2">>

\* The column value sort_values compares, strings by their place in the
\* str order.  "Durée" is computed only when the frame lacks the column.
sort_key(row, sort_by) ==
    CASE sort_by = "Date de début" -> row.start_date
      [] sort_by = "Date de fin" -> row.end_date
      [] sort_by = "Durée" -> IF "duration" \in DOMAIN row THEN row.duration
                              ELSE (row.end_date - row.start_date) + 1
      [] sort_by = "Responsable" ->
            CHOOSE i \in 1..Len(StringOrder) : StringOrder[i] = row.resource
      [] sort_by = "Priorité" ->
            CHOOSE i \in 1..Len(StringOrder) : StringOrder[i] = row.priority

\* Every column sorted ascending.
ascending_always(sort_by) == TRUE

\* The ascending argument of sort_values: False for "Durée", the default
\* True otherwise.
ascending(sort_by) == sort_by /= "Durée"

\* The frames sort_values may return: the rows in an order in which the key
\* never decreases (never increases when descending); rows with equal keys
\* in any order, the default sort not being stable.
sort_values(df, sort_by) ==
    { [ i \in 1..Len(df) |-> df[f[i]] ] :
        f \in { g \in [1..Len(df) -> 1..Len(df)] :
                  /\ \A i, j \in 1..Len(df) : i /= j => g[i] /= g[j]
                  /\ \A i \in 1..(Len(df) - 1) :
                        IF ascending(sort_by)
                        THEN sort_key(df[g[i]], sort_by) <= sort_key(df[g[i + 1]], sort_by)
                        ELSE sort_key(df[g[i]], sort_by) >= sort_key(df[g[i + 1]], sort_by) } }

ViewIdle ==
    [ pc |-> "idle", tasks |-> << >>, redated |-> FALSE, tasks_df |-> << >>,
      filters |-> None, filtered_df |-> << >>, sort_by |-> "", chart_df |-> << >>,
      color_by |-> "", color_map |-> EmptyDict, editable_df |-> << >> ]

\* tasks_df = data_manager.project_to_dataframe(project).
ProjectToDataframe ==
    /\ view.pc = "project"
    /\ view' = [ view EXCEPT !.pc = "table",
                             !.tasks_df = project_to_dataframe([tasks |-> view.tasks]) ]
    /\ UNCHANGED << session, export, stats, edit, upload, shared >>

\* The form saves other dates for a task and main() runs again: the table
\* is projected anew from the project.
RedateAndRerun ==
    /\ view.pc = "table"
    /\ ~ view.redated
    /\ \E i \in 1..Len(view.tasks), d \in Periods :
        LET tasks == [ view.tasks EXCEPT ![i].start_date = d[1], ![i].end_date = d[2] ]
        IN  /\ tasks /= view.tasks
            /\ view' = [ view EXCEPT !.tasks = tasks, !.redated = TRUE,
                                     !.tasks_df = project_to_dataframe([tasks |-> tasks]) ]
    /\ UNCHANGED << session, export, stats, edit, upload, shared >>

\* The filter widgets hold their values and the masks are applied.
ApplyFilters ==
    /\ view.pc = "table"
    /\ view.tasks_df /= << >>
    /\ \E f \in FilterChoices(view.tasks_df) :
        view' = [ view EXCEPT !.pc = "filtered", !.filters = f,
                              !.filtered_df = filtered_df(view.tasks_df, f) ]
    /\ UNCHANGED << session, export, stats, edit, upload, shared >>

\* create_gantt_chart(filtered_df, sort_by = ...), up to the sorted copy.
CreateGanttChart ==
    /\ view.pc = "filtered"
    /\ view.filtered_df /= << >>
    /\ \E sort_by \in Range(SortOptions) :
        \E df_copy \in sort_values(view.filtered_df, sort_by) :
            view' = [ view EXCEPT !.pc = "chart", !.sort_by = sort_by,
                                  !.chart_df = df_copy ]
    /\ UNCHANGED << session, export, stats, edit, upload, shared >>

\* self.status_colors and self.priority_colors.
status_colors ==
    [ value \in Range(StatusOptions) |->
        CASE value = "Non démarré" -> "#9E9E9E"
          [] value = "En cours" -> "#2196F3"
          [] value = "Terminé" -> "#4CAF50"
          [] value = "En retard" -> "#F44336" ]

priority_colors ==
    [ value \in Range(PriorityOptions) |->
        CASE value = "Basse" -> "#81C784"
          [] value = "Moyenne" -> "#FFB74D"
          [] value = "Haute" -> "#FF8A65"
          [] value = "Critique" -> "#E57373" ]

\* px.colors.qualitative.Plotly.
Plotly ==
    << "#636EFA", "#EF553B", "#00CC96", "#AB63FA", "#FFA15A",
       "#19D3F3", "#FF6692", "#B6E880", "#FF97FF", "#FECB52" >>

\* The options of the "Colorer par" selectbox.
ColorOptions == <<"Statut", "Responsable", "Priorité">>

\* Series.unique(): the distinct values in the order they are first met.
unique(values) ==
    LET F[k \in 0..Len(values)] ==
            IF k = 0 THEN << >>
            ELSE IF values[k] \in Range(F[k - 1]) THEN F[k - 1]
                 ELSE Append(F[k - 1], values[k])
    IN  F[Len(values)]

\* list[:n]: the first n elements, the whole list when it has fewer.
slice_to(list, n) == SubSeq(list, 1, IF n < Len(list) THEN n ELSE Len(list))

\* dict(zip(keys, values)): one pair per position both lists have.
zip_dict(keys, values) ==
    LET n == IF Len(keys) < Len(values) THEN Len(keys) ELSE Len(values)
        F[k \in 0..n] ==
            IF k = 0 THEN EmptyDict ELSE DictPut(F[k - 1], keys[k], values[k])
    IN  F[n]

\* color_map of create_gantt_chart, over the sorted copy of the rows.
color_map(df_copy, color_by) ==
    IF color_by = "Statut" THEN status_colors
    ELSE IF color_by = "Priorité" THEN priority_colors
    ELSE LET unique_resources ==
                 unique([ i \in 1..Len(df_copy) |-> df_copy[i].resource ])
             colors == slice_to(Plotly, Len(unique_resources))
         IN  zip_dict(unique_resources, colors)

\* create_gantt_chart after the sort: the colours for the chosen attribute.
ColorMap ==
    /\ view.pc = "chart"
    /\ \E color_by \in Range(ColorOptions) :
        view' = [ view EXCEPT !.pc = "coloured", !.color_by = color_by,
                              !.color_map = color_map(view.chart_df, color_by) ]
    /\ UNCHANGED << session, export, stats, edit, upload, shared >>

\* The second tab of the same run: st.data_editor is given filtered_df and
\* shows its rows as they are.
DataEditor ==
    /\ view.pc = "chart"
    /\ view' = [ view EXCEPT !.pc = "tabs", !.editable_df = view.filtered_df ]
    /\ UNCHANGED << session, export, stats, edit, upload, shared >>

\* Largest number of rows of the charts whose colours are followed: one
\* more than the palette has colours.
MaxColorRows == 11

\* The resources typed for the tasks of these charts: "r1", "r2", ...
ResourceNames == [ i \in 1..MaxColorRows |-> "r" \o ToString(i) ]

\* Their task lists: the i-th task carries the id i and has a resource of
\* its own or that of the first task; all tasks take the same day.
ColorProjects ==
    UNION { { [ i \in 1..k |->
                [ id |-> i, name |-> "A", start_date |-> 1, end_date |-> 1,
                  resource |-> IF i \in own THEN ResourceNames[i] ELSE ResourceNames[1],
                  status |-> StatusOptions[2], priority |-> PriorityOptions[2],
                  dependencies |-> << >>, description |-> "" ] ] :
              own \in SUBSET (2..k) } : k \in 1..MaxColorRows }

\* The run of main() over such a project up to the sorted copy: nothing is
\* filtered out, and sorted by start date the rows, whose dates are equal,
\* may stay in table order.
Charted(tasks) ==
    LET tasks_df == project_to_dataframe([tasks |-> tasks])
    IN  [ ViewIdle EXCEPT
            !.pc = "chart", !.tasks = tasks, !.tasks_df = tasks_df,
            !.filters = [ status_filter |-> { StatusOptions[2] },
                          resource_filter |-> { tasks[i].resource : i \in 1..Len(tasks) },
                          priority_filter |-> { PriorityOptions[2] },
                          date_range |-> <<1, 1>> ],
            !.filtered_df = tasks_df, !.sort_by = SortOptions[1], !.chart_df = tasks_df ]

\* --------------------------------------- update_tasks_from_dataframe, rerun
\* A name typed in a name cell that no task of the project has yet.
NewName == "C"

\* The task lists the table is edited for: the i-th task carries the id i,
\* names may repeat, a later task may depend on the first.
EditProjects ==
    UNION { { [ i \in 1..k |->
                [ id |-> i, name |-> f[i][1], start_date |-> 1, end_date |-> MaxDate,
                  resource |-> "r1", status |-> StatusOptions[2],
                  priority |-> PriorityOptions[2],
                  dependencies |-> IF i = 1 THEN << >> ELSE f[i][2],
                  description |-> "" ] ] :
              f \in [1..k -> TaskNames \X { << >>, <<1>> }] } : k \in 1..MaxTasks }

\* The frames the table editor hands back for the whole table: every row
\* as shown, with one cell retyped, or renamed to the new name; one row at
\* least differs from the table shown.
TableEdits(rows, ids) ==
    { df \in [1..Len(rows) -> UNION { RowEdits(rows[k], ids) \cup
                                      { rows[k], [rows[k] EXCEPT !.name = NewName] } :
                                      k \in 1..Len(rows) }] :
        \A k \in 1..Len(rows) :
            df[k] \in RowEdits(rows[k], ids) \cup
                      { rows[k], [rows[k] EXCEPT !.name = NewName] } } \ {rows}

\* The cells of a row the loop body calls a method on: .date() on the two
\* dates, .split on the dependencies.
MethodCells == {"Date de début", "Date de fin", "Dépendances"}

\* A frame with at most one cell whose value has not the method the loop
\* body calls on it: row 0 stands for a frame without such a cell.
Faults(df) ==
    { [row |-> 0, cell |-> ""] } \cup [ row : 1..Len(df), cell : MethodCells ]

\* The task the loop body leaves when the statement that reads the cell
\* raises: the assignments before that statement have been made.
update_row_until(tasks, row, cell) ==
    LET i == IndexOfId(tasks, row.ID)
        named == [ tasks[i] EXCEPT !.name = row.name ]
        started == [ named EXCEPT !.start_date = row.start_date ]
        described == [ started EXCEPT !.end_date = row.end_date,
                                      !.resource = row.resource,
                                      !.status = row.status,
                                      !.priority = row.priority,
                                      !.description = row.description ]
    IN  [ tasks EXCEPT ![i] =
            CASE cell = "Date de début" -> named
              [] cell = "Date de fin" -> started
              [] cell = "Dépendances" -> described ]

\* Whether the loop of update_tasks_from_dataframe raises on the frame: the
\* cell is read only when the row's ID is the id of a task.
raises(tasks, df, fault) ==
    /\ fault.row /= 0
    /\ IndexOfId(tasks, df[fault.row].ID) /= 0

\* The task dicts when the loop raises: the rows before the row are
\* applied, and the row up to the statement that raises.
tasks_when_raised(tasks, df, fault) ==
    LET dict == task_name_to_id(tasks)
        F[k \in 0..(fault.row - 1)] ==
            IF k = 0 THEN tasks ELSE update_row(F[k - 1], dict, df[k])
    IN  update_row_until(F[fault.row - 1], df[fault.row], fault.cell)

EditIdle ==
    [ pc |-> "idle", tasks |-> << >>, df |-> << >>, fault |-> [row |-> 0, cell |-> ""],
      project_tasks |-> << >>, stored_tasks |-> << >>, tasks_df |-> << >> ]

\* "Enregistrer les modifications" on a frame the loop runs through:
\* update_tasks_from_dataframe writes the rows into the task dicts of the
\* project and saves it.
UpdateTasks ==
    /\ edit.pc = "edited"
    /\ ~ raises(edit.tasks, edit.df, edit.fault)
    /\ \E ok \in SaveOutcomes :
        LET tasks == update_tasks_from_dataframe(edit.tasks, edit.df)
        IN  edit' = [ edit EXCEPT !.pc = "saved", !.project_tasks = tasks,
                                  !.stored_tasks = IF ok THEN tasks ELSE @ ]
    /\ UNCHANGED << session, export, stats, view, upload, shared >>

\* "Enregistrer les modifications" on a frame with a cell the loop body
\* raises on: the exception leaves update_tasks_from_dataframe and main();
\* the task dicts, which are those of st.session_state.current_project,
\* keep what was assigned; save_project is not reached.
UpdateTasksRaises ==
    /\ edit.pc = "edited"
    /\ raises(edit.tasks, edit.df, edit.fault)
    /\ edit' = [ edit EXCEPT !.pc = "raised",
                             !.project_tasks =
                                 tasks_when_raised(edit.tasks, edit.df, edit.fault) ]
    /\ UNCHANGED << session, export, stats, view, upload, shared >>

\* st.experimental_rerun(): main() projects the table from the project.
RerunAfterUpdate ==
    /\ edit.pc = "saved"
    /\ edit' = [ edit EXCEPT !.pc = "shown",
                             !.tasks_df = project_to_dataframe([tasks |-> edit.project_tasks]) ]
    /\ UNCHANGED << session, export, stats, view, upload, shared >>

\* ------------------------------------------------ main(): the sidebar import
\* Largest number of columns of an uploaded sheet that are not headed by
\* their canonical name.
MaxRenamed == 2

\* What a sheet can have in place of a canonical header: another of the
\* accepted names, or no such column ("").
OtherHeaders(std_col) == (possible_names(std_col) \ {std_col}) \cup {""}

\* The header of each canonical column in the uploaded sheets: at most
\* MaxRenamed columns are renamed or absent.
HeaderMaps ==
    UNION { { [ std_col \in DOMAIN column_mapping |->
                  IF std_col \in renamed THEN d[std_col] ELSE std_col ] :
              d \in { x \in [renamed -> UNION { OtherHeaders(c) : c \in renamed }] :
                        \A c \in renamed : x[c] \in OtherHeaders(c) } } :
            renamed \in { x \in SUBSET DOMAIN column_mapping : Cardinality(x) <= MaxRenamed } }

\* The date cells of a row of an uploaded sheet: a period, an end before
\* its start, a start or an end that is no date.
UploadDates ==
    { <<1, MaxDate>>, <<MaxDate, 1>>, <<UnparseableDate, 1>>, <<1, UnparseableDate>> }

\* The rows of the uploaded sheets: task A, then tasks B that depend on A.
UploadRows ==
    UNION { { [ i \in 1..k |->
                [ name |-> IF i = 1 THEN "A" ELSE "B",
                  start_date |-> d[i][1], end_date |-> d[i][2],
                  resource |-> "r1", status |-> StatusOptions[2],
                  priority |-> PriorityOptions[2],
                  dependencies |-> IF i = 1 THEN << >> ELSE <<"A">>,
                  description |-> "d" ] ] :
              d \in [1..k -> UploadDates] } : k \in 1..MaxTasks }

\* pd.read_excel(uploaded_file): the columns present, and the cells of each
\* row under them.
UploadSheets ==
    { [ columns |-> { h[c] : c \in DOMAIN h } \ {""},
        rows |-> [ i \in 1..Len(rows) |->
                     [ header \in { h[c] : c \in DOMAIN h } \ {""} |->
                         FieldCell(rows[i], CHOOSE c \in DOMAIN h : h[c] = header) ] ] ] :
      h \in HeaderMaps, rows \in UploadRows }

UploadIdle ==
    [ pc |-> "idle", sheet |-> None, is_valid |-> FALSE, message |-> "",
      df |-> None, project |-> None ]

\* A file is uploaded: it is read and validated; when it is not valid its
\* message is shown with st.error and the import form is not offered.
ValidateUpload ==
    /\ upload.pc = "uploaded"
    /\ LET v == validate_excel_file(upload.sheet)
       IN  upload' = [ upload EXCEPT !.pc = IF v.is_valid THEN "valid" ELSE "rejected",
                                     !.is_valid = v.is_valid,
                                     !.message = v.message,
                                     !.df = v.df ]
    /\ UNCHANGED << session, export, stats, view, edit, shared >>

\* "Importer" on a valid sheet whose required columns are all found: the
\* project is created, saved and made current.
SubmitImport ==
    /\ upload.pc = "valid"
    /\ now < MaxClock
    /\ missing_required(upload.df) = {}
    /\ \E ok \in SaveOutcomes :
        LET df == standardized_rows(upload.df)
            p == create_project_from_dataframe(df, <<"Projet importé">>, uuid, now + 1)
        IN  /\ store' = save_project(store, p, ok)
            /\ projects' = load_all_projects(store')
            /\ current_project' = p
            /\ project' = p
            /\ uuid' = uuid + 1 + Len(df)
            /\ op' = [name |-> "import", wrote |-> 1..Len(df), saved |-> ok,
                      message |-> "Projet importé avec succès !",
                      dropped |-> \E k \in 1..Len(df) :
                          Dropped(df[k].dependencies, p.tasks[k].dependencies)]
            /\ upload' = [ upload EXCEPT !.pc = "imported", !.project = p ]
    /\ now' = now + 1
    /\ UNCHANGED << show_task_form, edit_task_id, export, stats, view, edit, shared >>

\* "Importer" on a valid sheet that lacks a required column:
\* create_project_from_dataframe raises ValueError, which the except clause
\* of the import shows with st.error; nothing is created.
SubmitImportRaises ==
    /\ upload.pc = "valid"
    /\ now < MaxClock
    /\ missing_required(upload.df) /= {}
    /\ upload' = [ upload EXCEPT !.pc = "error",
                                 !.message = "Colonne requise manquante" ]
    /\ project' = current_project
    /\ now' = now + 1
    /\ op' = [name |-> "import_raised", wrote |-> {}, saved |-> TRUE,
              message |-> "Erreur lors de l'importation", dropped |-> FALSE]
    /\ UNCHANGED << store, projects, current_project, show_task_form, edit_task_id,
                    uuid, export, stats, view, edit, shared >>

\* ------------------------------------- data/projects, used by two sessions
\* Number of calls of save_project the two sessions make together; each
\* draws at most one uuid and reads the clock once.
MaxPuts == 4

\* Largest number of tasks of a project the two sessions share.
MaxSharedTasks == 3

\* The browser sessions that run app_fixed.py over the same data directory.
Sessions == {"s1", "s2"}

\* A str, and a list of str, as json.dump writes them.
dump_str(value) == [ type |-> "string", value |-> value ]

dump_list(items) ==
    [ type |-> "array", items |-> [ i \in 1..Len(items) |-> dump_str(items[i]) ] ]

\* A task dict as json.dump writes it: its keys in the order of insertion.
dump_task(task) ==
    [ type |-> "object",
      members |-> << <<"id", dump_str(task.id)>>,
                     <<"name", dump_str(task.name)>>,
                     <<"start_date", dump_str(task.start_date)>>,
                     <<"end_date", dump_str(task.end_date)>>,
                     <<"resource", dump_str(task.resource)>>,
                     <<"status", dump_str(task.status)>>,
                     <<"priority", dump_str(task.priority)>>,
                     <<"dependencies", dump_list(task.dependencies)>>,
                     <<"description", dump_str(task.description)>> >> ]

\* The text written for a project without its "updated_at" key.
json_dump_undated(p) ==
    [ type |-> "object",
      members |-> << <<"id", dump_str(p.id)>>,
                     <<"name", dump_str(p.name)>>,
                     <<"created_at", dump_str(p.created_at)>>,
                     <<"tasks", [ type |-> "array",
                                  items |-> [ i \in 1..Len(p.tasks) |->
                                                dump_task(p.tasks[i]) ] ]>> >> ]

\* json.dump(project, f, ensure_ascii=False, indent=2): the text of the
\* file, as the tree of its objects, arrays and strings.
json_dump(p) ==
    [ type |-> "object",
      members |-> << <<"id", dump_str(p.id)>>,
                     <<"name", dump_str(p.name)>>,
                     <<"created_at", dump_str(p.created_at)>>,
                     <<"updated_at", dump_str(p.updated_at)>>,
                     <<"tasks", [ type |-> "array",
                                  items |-> [ i \in 1..Len(p.tasks) |->
                                                dump_task(p.tasks[i]) ] ]>> >> ]

\* json.load(f): an object becomes a dict (of a key written twice the last
\* value is kept), an array a list, a string a str.
RECURSIVE json_load(_)
json_load(text) ==
    CASE text.type = "object" ->
            [ key \in { text.members[i][1] : i \in 1..Len(text.members) } |->
                json_load(text.members[
                    CHOOSE i \in 1..Len(text.members) :
                        /\ text.members[i][1] = key
                        /\ \A j \in (i + 1)..Len(text.members) :
                              text.members[j][1] /= key ][2]) ]
      [] text.type = "array" ->
            [ i \in 1..Len(text.items) |-> json_load(text.items[i]) ]
      [] text.type = "string" -> text.value

\* The file <id>.json: missing, holding the text of a project, or cut short
\* by a write that raised after open(path, 'w') had emptied it.
NoFile == [ kind |-> "missing" ]

CutShort == [ kind |-> "cut short" ]

\* What a call of save_project does to the file: the text is written, open()
\* raises and the file is as before, or json.dump or a write raises.
WriteOutcomes == {"written", "open raises", "write raises"}

\* save_project on the files, with the documents of both sessions merged:
\* the tasks of the stored project the new document lacks are kept.
save_project_file_merging(disk, p, outcome) ==
    CASE outcome = "written" ->
            [ disk EXCEPT ![p.id] =
                IF @.kind = "text"
                THEN [ kind |-> "text",
                       text |-> json_dump([ p EXCEPT !.tasks =
                            @ \o SelectSeq(json_load(disk[p.id].text).tasks,
                                           LAMBDA task : task.id \notin TaskIds(p.tasks)) ]) ]
                ELSE [ kind |-> "text", text |-> json_dump(p) ] ]
      [] outcome = "open raises" -> disk
      [] outcome = "write raises" -> [ disk EXCEPT ![p.id] = CutShort ]

\* save_project on the files of the data directory: <id>.json is opened for
\* writing, which empties it, and the document is dumped into it.
save_project_file(disk, p, outcome) ==
    CASE outcome = "written" ->
            [ disk EXCEPT ![p.id] = [ kind |-> "text", text |-> json_dump(p) ] ]
      [] outcome = "open raises" -> disk
      [] outcome = "write raises" -> [ disk EXCEPT ![p.id] = CutShort ]

\* load_project on the files: None when the file is missing or json.load
\* raises on it.
load_project_file(disk, project_id) ==
    IF disk[project_id].kind = "text" THEN json_load(disk[project_id].text) ELSE None

\* delete_project on the files: os.remove when the file exists; removed is
\* FALSE when os.remove raises.
delete_project_file(disk, project_id, removed) ==
    IF disk[project_id].kind /= "missing" /\ removed
    THEN [ disk EXCEPT ![project_id] = NoFile ]
    ELSE disk

\* load_all_projects on the files, as far as the sidebar uses it: the ids
\* of the files json.load reads.
load_all_project_files(disk) == { id \in DOMAIN disk : disk[id].kind = "text" }

\* What the calls made so far tell of the file of a project id: no put
\* yet, the document of the last put, deleted, or nothing, after a put that
\* failed on a stored document.
Never == [ kind |-> "never", doc |-> None ]

after_put(known, p, outcome) ==
    IF outcome = "written" THEN [ kind |-> "put", doc |-> p ]
    ELSE IF known.kind = "put" THEN [ kind |-> "unknown", doc |-> None ]
    ELSE known

after_delete(known, file, removed) ==
    IF file.kind /= "missing" /\ removed THEN [ kind |-> "deleted", doc |-> None ]
    ELSE known

\* Each session has its own st.session_state: the sidebar's list and the
\* current project; saved is the outcome of the last save of the project
\* the session holds, "" when it has saved nothing since it took it.
SharedIdle ==
    [ disk |-> [ id \in 1..MaxPuts |-> NoFile ],
      projects |-> [ s \in Sessions |-> {} ],
      held |-> [ s \in Sessions |-> None ],
      saved |-> [ s \in Sessions |-> "" ],
      track |-> [ id \in 1..MaxPuts |-> Never ],
      last |-> [ session |-> "", name |-> "init", outcome |-> "", id |-> 0 ],
      uuid |-> 0,
      now |-> 0 ]

\* A session begins (the page is opened or reloaded): the initialisation of
\* st.session_state lists the projects on disk and has no current project.
SharedStartSession ==
    /\ \E s \in Sessions :
        shared' = [ shared EXCEPT
            !.projects[s] = load_all_project_files(shared.disk),
            !.held[s] = None,
            !.saved[s] = "",
            !.last = [ session |-> s, name |-> "start", outcome |-> "", id |-> 0 ] ]
    /\ UNCHANGED << session, export, stats, view, edit, upload >>

\* create_new_project in one of the sessions.
SharedCreateNewProject ==
    /\ shared.now < MaxPuts
    /\ \E s \in Sessions, outcome \in WriteOutcomes :
        LET p == [ id |-> shared.uuid + 1, name |-> <<"Nouveau projet">>,
                   created_at |-> shared.now + 1, updated_at |-> shared.now + 1,
                   tasks |-> << >> ]
            disk == save_project_file(shared.disk, p, outcome)
        IN  shared' = [ shared EXCEPT
                !.disk = disk,
                !.projects[s] = load_all_project_files(disk),
                !.held[s] = p,
                !.saved[s] = outcome,
                !.track[p.id] = after_put(@, p, outcome),
                !.last = [ session |-> s, name |-> "create_new_project",
                           outcome |-> outcome, id |-> p.id ],
                !.uuid = @ + 1,
                !.now = @ + 1 ]
    /\ UNCHANGED << session, export, stats, view, edit, upload >>

\* load_project(project_id) from a button of the session's sidebar list,
\* which may name a file another session has deleted since.
SharedLoadProject ==
    /\ \E s \in Sessions :
        \E project_id \in shared.projects[s] :
            shared' = [ shared EXCEPT
                !.held[s] = load_project_file(shared.disk, project_id),
                !.saved[s] = "",
                !.last = [ session |-> s, name |-> "load_project", outcome |-> "",
                           id |-> project_id ] ]
    /\ UNCHANGED << session, export, stats, view, edit, upload >>

\* The name typed in the form for the k-th task of a project.
SharedTaskNames == [ k \in 1..MaxSharedTasks |-> "T" \o ToString(k) ]

\* The task form of a session adds a task to the session's current project
\* and saves the project.
SharedAddTask ==
    /\ shared.now < MaxPuts
    /\ \E s \in Sessions, outcome \in WriteOutcomes,
          a \in { x \in Attrs : x.resource = "r1" } :
        /\ shared.held[s] /= None
        /\ Len(shared.held[s].tasks) < MaxSharedTasks
        /\ \E task_dependencies \in Selections(available_tasks(shared.held[s], None)) :
            LET p == shared.held[s]
                deps == dependency_ids(p.tasks, task_dependencies)
                tasks == form_submit(p.tasks, None, NoTaskId, shared.uuid + 1,
                                     SharedTaskNames[Len(p.tasks) + 1], 1, MaxDate,
                                     a, deps)
                q == touch([ p EXCEPT !.tasks = tasks ], shared.now + 1)
            IN  shared' = [ shared EXCEPT
                    !.disk = save_project_file(@, q, outcome),
                    !.held[s] = q,
                    !.saved[s] = outcome,
                    !.track[q.id] = after_put(@, q, outcome),
                    !.last = [ session |-> s, name |-> "add_task",
                               outcome |-> outcome, id |-> q.id ],
                    !.uuid = @ + 1,
                    !.now = @ + 1 ]
    /\ UNCHANGED << session, export, stats, view, edit, upload >>

\* delete_task(task_id) in a session, for a task of its current project.
SharedDeleteTask ==
    /\ shared.now < MaxPuts
    /\ \E s \in Sessions, outcome \in WriteOutcomes :
        /\ shared.held[s] /= None
        /\ \E task_id \in TaskIds(shared.held[s].tasks) :
            LET q == touch([ shared.held[s] EXCEPT !.tasks = delete_task(@, task_id) ],
                           shared.now + 1)
            IN  shared' = [ shared EXCEPT
                    !.disk = save_project_file(@, q, outcome),
                    !.held[s] = q,
                    !.saved[s] = outcome,
                    !.track[q.id] = after_put(@, q, outcome),
                    !.last = [ session |-> s, name |-> "delete_task",
                               outcome |-> outcome, id |-> q.id ],
                    !.now = @ + 1 ]
    /\ UNCHANGED << session, export, stats, view, edit, upload >>

\* delete_project(project_id) from a button of the session's sidebar list.
SharedDeleteProject ==
    /\ \E s \in Sessions, removed \in BOOLEAN :
        \E project_id \in shared.projects[s] :
            LET disk == delete_project_file(shared.disk, project_id, removed)
            IN  shared' = [ shared EXCEPT
                    !.disk = disk,
                    !.projects[s] = load_all_project_files(disk),
                    !.held[s] = IF @ /= None /\ @.id = project_id THEN None ELSE @,
                    !.saved[s] = IF shared.held[s] /= None /\ shared.held[s].id = project_id
                                 THEN "" ELSE @,
                    !.track[project_id] = after_delete(@, shared.disk[project_id], removed),
                    !.last = [ session |-> s, name |-> "delete_project",
                               outcome |-> IF removed THEN "removed" ELSE "remove raises",
                               id |-> project_id ] ]
    /\ UNCHANGED << session, export, stats, view, edit, upload >>

\* -------------------------------------------------------- specifications
Init ==
    /\ SessionInit
    /\ export = ExportIdle
    /\ stats = StatsIdle
    /\ view = ViewIdle
    /\ edit = EditIdle
    /\ upload = UploadIdle
    /\ shared = SharedIdle

Next ==
    \/ CreateNewProject
    \/ LoadProject
    \/ DeleteProject
    \/ DuplicateFromSidebar
    \/ DuplicateFromHeader
    \/ ToggleTaskForm
    \/ EditTask
    \/ DeleteTask
    \/ Rename
    \/ FormSubmit
    \/ FormCancel
    \/ SaveTableEdits
    \/ Import
    \/ ImportRejected

Spec == Init /\ [][Next]_vars


\* The export chain alone, for every set of failing renderers, on an empty
\* and on a non-empty figure.
ExportInit ==
    /\ SessionInit
    /\ stats = StatsIdle
    /\ view = ViewIdle
    /\ edit = EditIdle
    /\ upload = UploadIdle
    /\ shared = SharedIdle
    /\ export \in { [ ExportIdle EXCEPT !.pc = "ready", !.fails = f, !.scene_empty = b ] :
                    f \in SUBSET Renderers, b \in BOOLEAN }

ExportNext ==
    \/ ExportButton
    \/ ExportCall
    \/ TrySvg
    \/ TryPng
    \/ TryHtml
    \/ TryJson
    \/ ErrorDocument
    \/ DownloadButton

ExportSpec == ExportInit /\ [][ExportNext]_vars

\* calculate_project_stats alone, on every frame of up to MaxRows rows.
StatsInit ==
    /\ SessionInit
    /\ export = ExportIdle
    /\ view = ViewIdle
    /\ edit = EditIdle
    /\ upload = UploadIdle
    /\ shared = SharedIdle
    /\ stats \in { [ StatsIdle EXCEPT !.df = df ] : df \in StatsFrames }

StatsNext == CalculateStats

StatsSpec == StatsInit /\ [][StatsNext]_vars

\* The table, the filters and the chart of main(), over the projects shown.
ViewInit ==
    /\ SessionInit
    /\ export = ExportIdle
    /\ stats = StatsIdle
    /\ edit = EditIdle
    /\ upload = UploadIdle
    /\ shared = SharedIdle
    /\ view \in { [ ViewIdle EXCEPT !.pc = "project", !.tasks = ts ] : ts \in ViewProjects }

ViewNext ==
    \/ ProjectToDataframe
    \/ RedateAndRerun
    \/ ApplyFilters
    \/ CreateGanttChart
    \/ DataEditor

ViewSpec == ViewInit /\ [][ViewNext]_vars

\* The save of the edited table and the run of main() after it, over the
\* edited frames of the projects of EditProjects.
EditInit ==
    /\ SessionInit
    /\ export = ExportIdle
    /\ stats = StatsIdle
    /\ view = ViewIdle
    /\ upload = UploadIdle
    /\ shared = SharedIdle
    /\ edit \in { [ EditIdle EXCEPT !.pc = "edited", !.tasks = x[1], !.df = x[2],
                                    !.fault = x[3], !.project_tasks = x[1],
                                    !.stored_tasks = x[1] ] :
                  x \in UNION { UNION { { <<ts, df, ft>> : ft \in Faults(df) } :
                                   df \in TableEdits(project_to_dataframe([tasks |-> ts]),
                                                     TaskIds(ts)) } :
                                ts \in EditProjects } }

EditNext ==
    \/ UpdateTasks
    \/ UpdateTasksRaises
    \/ RerunAfterUpdate

EditSpec == EditInit /\ [][EditNext]_vars

\* The upload, validation and import of the sheets of UploadSheets.
ImportInit ==
    /\ SessionInit
    /\ export = ExportIdle
    /\ stats = StatsIdle
    /\ view = ViewIdle
    /\ edit = EditIdle
    /\ upload \in { [ UploadIdle EXCEPT !.pc = "uploaded", !.sheet = sh ] :
                    sh \in UploadSheets }
    /\ shared = SharedIdle

ImportNext ==
    \/ ValidateUpload
    \/ SubmitImport
    \/ SubmitImportRaises

ImportSpec == ImportInit /\ [][ImportNext]_vars

\* The colours of the chart, for up to MaxColorRows rows.
ColorInit ==
    /\ SessionInit
    /\ export = ExportIdle
    /\ stats = StatsIdle
    /\ edit = EditIdle
    /\ upload = UploadIdle
    /\ shared = SharedIdle
    /\ view \in { Charted(tasks) : tasks \in ColorProjects }

ColorNext == ColorMap

ColorSpec == ColorInit /\ [][ColorNext]_vars

\* Two sessions over the same data directory, which is empty at first.
SharedInit ==
    /\ SessionInit
    /\ export = ExportIdle
    /\ stats = StatsIdle
    /\ view = ViewIdle
    /\ edit = EditIdle
    /\ upload = UploadIdle
    /\ shared = SharedIdle

SharedNext ==
    \/ SharedStartSession
    \/ SharedCreateNewProject
    \/ SharedLoadProject
    \/ SharedAddTask
    \/ SharedDeleteTask
    \/ SharedDeleteProject

SharedSpec == SharedInit /\ [][SharedNext]_vars

\* ---------------------------------------------------------------- claims
Tasks == IF current_project = None THEN << >> ELSE current_project.tasks

\* C1: after delete_task(id) the removed id appears in the dependencies of
\* no remaining task of the project.
C1_RemoveCascades ==
    op.name = "delete_task" =>
        \A i \in 1..Len(Tasks) : op.task_id \notin Range(Tasks[i].dependencies)

\* The handlers that write a task's dependency list.
DependencyWriters ==
    {"add_task", "save_task", "import", "update_tasks", "duplicate_project"}

\* C2: every handler that writes a dependency list (form save, import,
\* table save, duplication) stores only ids of tasks of the same project;
\* names or ids with no matching task are dropped.
C2_WrittenDependenciesExist ==
    op.name \in DependencyWriters =>
        \A i \in op.wrote :
            Range(Tasks[i].dependencies) \subseteq TaskIds(Tasks)

\* C2, witness: a duplication that met a dependency id with no task (left
\* by an earlier delete_task) and dropped it.
C2_Witness ==
    /\ op.name = "duplicate_project"
    /\ op.dropped
    /\ Len(Tasks) > 0

\* C3: no task's dependency list contains the task's own id.
C3_NoSelfDependency ==
    \A i \in 1..Len(Tasks) : Tasks[i].id \notin Range(Tasks[i].dependencies)

\* C4: every task of the project has endDate >= startDate.
C4_EndNotBeforeStart ==
    \A i \in 1..Len(Tasks) : Tasks[i].end_date >= Tasks[i].start_date

\* C5: the task ids of a project are pairwise different.
C5_UniqueTaskIds ==
    \A i, j \in 1..Len(Tasks) : i /= j => Tasks[i].id /= Tasks[j].id

\* C6: across form saves, table saves, deletions of other tasks and
\* duplications, the tasks of the project main() has bound keep their ids:
\* the bound project's tasks after the handler carry, position by position
\* (for a deletion: among them), the ids they had when the run began.
C6_TaskIdsImmutable ==
    [][ ( /\ current_project /= None
          /\ project' /= None
          /\ project'.id = current_project.id )
        => /\ op'.name \in {"save_task", "update_tasks", "duplicate_project"}
              => /\ Len(project'.tasks) = Len(current_project.tasks)
                 /\ \A i \in 1..Len(project'.tasks) :
                        project'.tasks[i].id = current_project.tasks[i].id
           /\ op'.name = "delete_task"
              => TaskIds(project'.tasks) \subseteq TaskIds(current_project.tasks)
      ]_vars

\* The handlers that change a task of the project or the project's name.
Mutators == {"add_task", "save_task", "delete_task", "update_tasks", "rename"}

\* C7: every handler that mutates a task or the name of the project (task
\* add, edit, delete, table save, rename) leaves updated_at at the clock
\* reading of that handler; and whenever the tasks or the name of the
\* current project differ across a step that did not reload it from the
\* store, updated_at is that step's clock reading.
C7_UpdatedAtRefreshed ==
    [][ /\ op'.name \in Mutators => current_project'.updated_at = now'
        /\ ( /\ current_project /= None
             /\ current_project' /= None
             /\ current_project'.id = current_project.id
             /\ op'.name /= "load_project"
             /\ \/ current_project'.tasks /= current_project.tasks
                \/ current_project'.name /= current_project.name )
           => /\ now' > now
              /\ current_project'.updated_at = now'
      ]_vars

\* C7, witness: a task was deleted from a project created earlier, and
\* updated_at is the time of the deletion.
C7_Witness ==
    /\ op.name = "delete_task"
    /\ current_project.created_at < now
    /\ current_project.updated_at = now

\* The order in which the export chain is to try its stages, and the MIME
\* type each stage is to return.
ChainOrder == <<"svg", "png", "html", "json", "error">>

ChainMime == <<"image/svg+xml", "image/png", "text/html", "text/html", "text/html">>

\* C8: the export tries vector, raster, interactive document, raw-data
\* viewer, failure document in that order, each at most once, moving on
\* only when the stage before failed; it returns the result of stage k
\* exactly when stages 1..k-1 failed and stage k did not, whatever the
\* scene; with the vector renderer failing and the raster one available
\* the MIME type is the raster type.
C8_FallbackOrder ==
    LET a == export.attempts
        k == Len(a)
    IN  /\ k <= Len(ChainOrder)
        /\ \A i \in 1..k : a[i] = ChainOrder[i]
        /\ \A i \in 1..(k - 1) : a[i] \in export.fails
        /\ export.pc = "done" =>
              /\ k >= 1
              /\ a[k] \notin export.fails
              /\ \A j \in 1..Len(ChainOrder) :
                    ( /\ \A i \in 1..(j - 1) : ChainOrder[i] \in export.fails
                      /\ ChainOrder[j] \notin export.fails ) => j = k
              /\ export.result = stage_result(ChainOrder[k])
              /\ export.result.mime = ChainMime[k]
              /\ ("svg" \in export.fails /\ "png" \notin export.fails)
                    => export.result.mime = "image/png"
        /\ export.pc \in {"idle", "ready", "raised"} => k = 0

\* C8, witness: the vector renderer failed, the raster renderer was tried
\* next and its image returned, on an empty scene.
C8_Witness ==
    /\ export.pc = "done"
    /\ export.scene_empty
    /\ export.attempts = <<"svg", "png">>
    /\ export.result.mime = "image/png"

\* C9: an export invoked on the visualizer object, as main() invokes it,
\* raises nothing and ends with a (payload, mimeType) pair.
C9_NoExceptionEscapes ==
    export.route = "method" =>
        /\ export.pc /= "raised"
        /\ export.pc = "done" => export.result /= None

\* C10: stats() returns total = number of tasks, completed = number with
\* status Done, critical = number with priority Critical, delayed = number
\* with status Late, completionRate = 0 for no task and 100*completed/total
\* otherwise, duration = max endDate - min startDate + 1; every field is 0
\* for the empty task set.
C10_Stats ==
    stats.result /= None =>
        LET df == stats.df
            r == stats.result
            n == Len(df)
            Count(P(_)) == Cardinality({ i \in 1..n : P(df[i]) })
            done == Count(LAMBDA x : x.status = StatusOptions[3])
            last == CHOOSE m \in { df[i].end_date : i \in 1..n } :
                        \A i \in 1..n : df[i].end_date <= m
            first == CHOOSE m \in { df[i].start_date : i \in 1..n } :
                        \A i \in 1..n : df[i].start_date >= m
        IN  /\ r.total_tasks = n
            /\ r.completed_tasks = done
            /\ r.critical_tasks = Count(LAMBDA x : x.priority = PriorityOptions[4])
            /\ r.delayed_tasks = Count(LAMBDA x : x.status = StatusOptions[4])
            /\ r.completion_rate[2] > 0
            /\ n = 0 => /\ r.completion_rate[1] = 0
                        /\ r.duration = 0
            /\ n > 0 => /\ r.completion_rate[1] * n = 100 * done * r.completion_rate[2]
                        /\ r.duration = (last - first) + 1

\* C10, witness: the statistics of two tasks, one of them done, one late
\* and critical, that span the days 1..MaxDate.
C10_Witness ==
    /\ stats.result /= None
    /\ Len(stats.df) = 2
    /\ stats.result.completed_tasks = 1
    /\ stats.result.delayed_tasks = 1
    /\ stats.result.critical_tasks = 1
    /\ stats.result.duration = MaxDate
    /\ stats.result.completion_rate = <<100, 2>>

\* The elements of s at the positions of keep, in the order of s.
Pick(s, keep) ==
    [ k \in 1..Cardinality(keep) |->
        s[CHOOSE i \in keep : Cardinality({ j \in keep : j <= i }) = k] ]

\* C11: every row of the table carries duration = (endDate - startDate) in
\* days + 1 of the task's dates as they are when the table is projected,
\* also after the dates were changed; it is 1 when the two dates are equal;
\* the rows that reach the filters and the chart carry the same value.
C11_DurationDerived ==
    /\ view.pc \in {"table", "filtered", "chart"} =>
          /\ Len(view.tasks_df) = Len(view.tasks)
          /\ \A i \in 1..Len(view.tasks) :
                /\ view.tasks_df[i].duration =
                       (view.tasks[i].end_date - view.tasks[i].start_date) + 1
                /\ view.tasks[i].start_date = view.tasks[i].end_date
                       => view.tasks_df[i].duration = 1
    /\ \A row \in Range(view.filtered_df) \cup Range(view.chart_df) :
          row.duration = (row.end_date - row.start_date) + 1

\* C11, witness: the dates of a task were changed and the table projected
\* again; it holds a one-day task and a task over all the days.
C11_Witness ==
    /\ view.pc = "table"
    /\ view.redated
    /\ \E i, j \in 1..Len(view.tasks_df) :
          /\ view.tasks[i].start_date = view.tasks[i].end_date
          /\ view.tasks_df[i].duration = 1
          /\ view.tasks_df[j].duration = MaxDate

\* C12: the dependency names of a row are the current names of the tasks
\* its task's dependency ids refer to, in stored order, one per id that
\* some task carries, the other ids skipped; for a first task without
\* dependencies and a second that depends on the first, the second row
\* names the first task.
C12_DependencyNames ==
    view.pc \in {"table", "filtered", "chart"} =>
        /\ \A i \in 1..Len(view.tasks) :
              LET deps == view.tasks[i].dependencies
                  resolvable == { k \in 1..Len(deps) : deps[k] \in TaskIds(view.tasks) }
                  names == [ k \in 1..Len(deps) |->
                               IF k \in resolvable
                               THEN (CHOOSE t \in Range(view.tasks) : t.id = deps[k]).name
                               ELSE "" ]
              IN  view.tasks_df[i].dependencies = Pick(names, resolvable)
        /\ ( /\ Len(view.tasks) = 2
             /\ view.tasks[1].dependencies = << >>
             /\ view.tasks[2].dependencies = <<view.tasks[1].id>> )
           => view.tasks_df[2].dependencies = <<view.tasks[1].name>>

\* C12, witness: the second task depends on an id no task carries and on
\* the first task; its row names the first task only.
C12_Witness ==
    /\ view.pc = "table"
    /\ Len(view.tasks) = 2
    /\ view.tasks[2].dependencies = <<MaxTasks + 1, 1>>
    /\ view.tasks[1].name = "B"
    /\ view.tasks_df[2].dependencies = <<"B">>

\* The rank of a string of the sorted columns in lexical order.
Lexical(str) ==
    CASE str = "Basse" -> 1 [] str = "Critique" -> 2 [] str = "Haute" -> 3
      [] str = "Moyenne" -> 4 [] str = "r1" -> 5 [] str = "r2" -> 6

\* C13: the chart's rows are a permutation of the rows it was given;
\* sorted by duration they run from longest to shortest; sorted by start
\* date, end date, resource or priority they run ascending, strings in
\* lexical order.
C13_SortOrder ==
    view.pc = "chart" =>
        LET given == view.filtered_df
            out == view.chart_df
            n == Len(out)
            Key(row) ==
                CASE view.sort_by = "Date de début" -> row.start_date
                  [] view.sort_by = "Date de fin" -> row.end_date
                  [] view.sort_by = "Durée" -> (row.end_date - row.start_date) + 1
                  [] view.sort_by = "Responsable" -> Lexical(row.resource)
                  [] view.sort_by = "Priorité" -> Lexical(row.priority)
        IN  /\ n = Len(given)
            /\ \E f \in [1..n -> 1..n] :
                  /\ \A i, j \in 1..n : i /= j => f[i] /= f[j]
                  /\ \A i \in 1..n : out[i] = given[f[i]]
            /\ \A i \in 1..(n - 1) :
                  IF view.sort_by = "Durée"
                  THEN Key(out[i]) >= Key(out[i + 1])
                  ELSE Key(out[i]) <= Key(out[i + 1])

\* C13, witness: sorted by duration, the longer task comes first although
\* it is the second row of the table.
C13_Witness ==
    /\ view.pc = "chart"
    /\ view.sort_by = "Durée"
    /\ Len(view.chart_df) = 2
    /\ view.chart_df[1] = view.filtered_df[2]
    /\ view.chart_df[1].duration > view.chart_df[2].duration

\* C14: with a date range of two ends, the filtered table holds exactly
\* the rows whose status, resource and priority are among the selected
\* ones and whose own start is not before the range's start and own end
\* not after the range's end, in table order.
C14_Filter ==
    ( view.pc \in {"filtered", "chart"} /\ Len(view.filters.date_range) = 2 ) =>
        LET f == view.filters
            kept == { i \in 1..Len(view.tasks_df) :
                        /\ view.tasks_df[i].status \in f.status_filter
                        /\ view.tasks_df[i].resource \in f.resource_filter
                        /\ view.tasks_df[i].priority \in f.priority_filter
                        /\ view.tasks_df[i].start_date >= f.date_range[1]
                        /\ view.tasks_df[i].end_date <= f.date_range[2] }
        IN  view.filtered_df = Pick(view.tasks_df, kept)

\* C14, witness: every status, resource and priority is selected and the
\* range ends on the day a task starts and ends: that task is kept, the
\* earlier row, which ends later, is not.
C14_Witness ==
    /\ view.pc = "filtered"
    /\ Len(view.tasks_df) = 2
    /\ view.filters.date_range = <<1, 1>>
    /\ view.tasks_df[1].end_date = MaxDate
    /\ view.tasks_df[2].end_date = 1
    /\ view.filters.status_filter = { view.tasks_df[i].status : i \in 1..2 }
    /\ view.filters.resource_filter = { view.tasks_df[i].resource : i \in 1..2 }
    /\ view.filters.priority_filter = { view.tasks_df[i].priority : i \in 1..2 }
    /\ view.filtered_df = <<view.tasks_df[2]>>

\* The rows of the edited frame that are written to a task and not
\* overwritten by a later row with the same ID.
WrittenRows ==
    { k \in 1..Len(edit.df) :
        /\ IndexOfId(edit.tasks, edit.df[k].ID) /= 0
        /\ \A l \in 1..Len(edit.df) : l /= k => edit.df[l].ID /= edit.df[k].ID }

\* C15: the table save resolves each name of an edited row's dependency
\* cell against the task names the project has when the save is called: a
\* name no task has is dropped, and a name several tasks have resolves to
\* the first of them in project task order.
C15_FirstMatchResolution ==
    edit.pc \in {"saved", "shown"} =>
        \A k \in WrittenRows :
            LET cell == edit.df[k].dependencies
                known == { j \in 1..Len(cell) :
                             \E a \in 1..Len(edit.tasks) : edit.tasks[a].name = cell[j] }
                first == [ j \in 1..Len(cell) |->
                             IF j \in known
                             THEN edit.tasks[CHOOSE a \in 1..Len(edit.tasks) :
                                      /\ edit.tasks[a].name = cell[j]
                                      /\ \A b \in 1..(a - 1) :
                                            edit.tasks[b].name /= cell[j]].id
                             ELSE NoTaskId ]
            IN  edit.project_tasks[IndexOfId(edit.tasks, edit.df[k].ID)].dependencies
                    = Pick(first, known)

\* Whether the names of a task list are pairwise different.
UniqueNames(tasks) ==
    \A a, b \in 1..Len(tasks) : a /= b => tasks[a].name /= tasks[b].name

\* C16: after the table save and the projection that follows, the row of
\* every edited task shows the edited name, dates, resource, status,
\* priority and description, and, when the task names are unique before and
\* after the save and the cell names tasks of the project, the dependency
\* names of the edited row, also when the same save renames the task they
\* name.
C16_EditRoundTrip ==
    edit.pc = "shown" =>
        \A k \in WrittenRows :
            LET row == edit.df[k]
                shown == edit.tasks_df[IndexOfId(edit.tasks, row.ID)]
            IN  /\ shown.name = row.name
                /\ shown.start_date = row.start_date
                /\ shown.end_date = row.end_date
                /\ shown.resource = row.resource
                /\ shown.status = row.status
                /\ shown.priority = row.priority
                /\ shown.description = row.description
                /\ ( /\ UniqueNames(edit.tasks)
                     /\ UniqueNames(edit.project_tasks)
                     /\ \A j \in 1..Len(row.dependencies) :
                           \E t \in Range(edit.tasks) : t.name = row.dependencies[j] )
                   => shown.dependencies = row.dependencies

\* C17: when the table save raises on a row, the tasks of the project in
\* memory and the stored document are as before the call.
C17_NoPartialMutation ==
    edit.pc = "raised" =>
        /\ edit.project_tasks = edit.tasks
        /\ edit.stored_tasks = edit.tasks

\* Whether the uploaded sheet has a column headed by the canonical name of
\* the field or by one of the names listed for it.
Headed(std_col) == upload.sheet.columns \cap possible_names(std_col) /= {}

\* The cell of row i of the uploaded sheet in the column that stands for
\* the field.
UploadedCell(i, std_col) ==
    upload.sheet.rows[i][CHOOSE c \in upload.sheet.columns : c \in possible_names(std_col)]

\* C18: validation rejects, with a reason, every sheet in which one of the
\* six required fields has neither its canonical column nor a listed
\* synonym; and no sheet that validation accepted is rejected by the
\* creation of the project for a missing required column.
C18_RequiredColumns ==
    upload.pc /= "uploaded" =>
        /\ ( \E std_col \in {"Tâche", "Date de début", "Date de fin", "Responsable",
                             "Statut", "Priorité"} : ~ Headed(std_col) )
              => /\ ~ upload.is_valid
                 /\ upload.message /= ""
        /\ upload.is_valid => upload.pc /= "error"

\* C19: a sheet with its name and date columns in which a date does not
\* parse or an end date is before its start date is not valid and has a
\* reason, which for end dates before start dates alone is the message about
\* earlier end dates; the import is then aborted: no project is created,
\* stored or made current.
C19_InvalidDatesRejected ==
    ( /\ upload.pc /= "uploaded"
      /\ Headed("Tâche") /\ Headed("Date de début") /\ Headed("Date de fin") ) =>
        LET n == Len(upload.sheet.rows)
            unparsed == \E i \in 1..n :
                           \/ UploadedCell(i, "Date de début") \notin Dates
                           \/ UploadedCell(i, "Date de fin") \notin Dates
            reversed == \E i \in 1..n :
                           /\ UploadedCell(i, "Date de début") \in Dates
                           /\ UploadedCell(i, "Date de fin") \in Dates
                           /\ UploadedCell(i, "Date de fin") < UploadedCell(i, "Date de début")
        IN  (unparsed \/ reversed) =>
                /\ ~ upload.is_valid
                /\ upload.message /= ""
                /\ ~ unparsed =>
                      upload.message =
                          "Certaines dates de fin sont antérieures aux dates de début"
                /\ upload.pc = "rejected"
                /\ upload.project = None
                /\ store = {}
                /\ projects = {}
                /\ current_project = None

\* C19, witness: a sheet of two rows whose name column is headed "Task"
\* and whose end date column "Fin", and whose second row ends before it
\* starts, has been rejected with the message about earlier end dates.
C19_Witness ==
    /\ upload.pc = "rejected"
    /\ {"Task", "Date de début", "Fin"} \subseteq upload.sheet.columns
    /\ Len(upload.sheet.rows) = 2
    /\ upload.sheet.rows[1]["Fin"] >= upload.sheet.rows[1]["Date de début"]
    /\ upload.sheet.rows[2]["Fin"] \in Dates
    /\ upload.sheet.rows[2]["Fin"] < upload.sheet.rows[2]["Date de début"]
    /\ upload.message = "Certaines dates de fin sont antérieures aux dates de début"
    /\ current_project = None

\* C20: a sheet in which every required column is headed by its canonical
\* name or by a listed synonym and every date parses with no end before its
\* start is accepted by validation, and its import succeeds: the project
\* made current has one task per row, each with the cells of its row under
\* the columns that stand for the canonical fields.
C20_SynonymsImported ==
    ( /\ upload.pc /= "uploaded"
      /\ \A std_col \in {"Tâche", "Date de début", "Date de fin", "Responsable",
                         "Statut", "Priorité"} : Headed(std_col)
      /\ \A i \in 1..Len(upload.sheet.rows) :
            /\ UploadedCell(i, "Date de début") \in Dates
            /\ UploadedCell(i, "Date de fin") \in Dates
            /\ UploadedCell(i, "Date de fin") >= UploadedCell(i, "Date de début") ) =>
        /\ upload.is_valid
        /\ upload.pc \in {"valid", "imported"}
        /\ upload.pc = "imported" =>
              /\ current_project = upload.project
              /\ Len(upload.project.tasks) = Len(upload.sheet.rows)
              /\ \A i \in 1..Len(upload.sheet.rows) :
                    LET task == upload.project.tasks[i]
                    IN  /\ task.name = UploadedCell(i, "Tâche")
                        /\ task.start_date = UploadedCell(i, "Date de début")
                        /\ task.end_date = UploadedCell(i, "Date de fin")
                        /\ task.resource = UploadedCell(i, "Responsable")
                        /\ task.status = UploadedCell(i, "Statut")
                        /\ task.priority = UploadedCell(i, "Priorité")

\* C20, witness: a sheet of two rows whose name column is headed "Task"
\* and whose resource column "Resource" has been imported as two tasks.
C20_Witness ==
    /\ upload.pc = "imported"
    /\ {"Task", "Resource"} \subseteq upload.sheet.columns
    /\ Len(current_project.tasks) = 2
    /\ current_project.tasks[1].name = "A"
    /\ current_project.tasks[2].resource = "r1"

\* C21: after a put that succeeded, and until the next put or delete of
\* the id, get returns a project equal to the one put: id, name, both
\* timestamps and every task with all its fields, its dependency ids in
\* order; get of an id never put, or deleted, returns absent.
C21_StoreRoundTrip ==
    \A id \in DOMAIN shared.disk :
        LET known == shared.track[id]
            got == load_project_file(shared.disk, id)
        IN  /\ known.kind = "put" =>
                  /\ got /= None
                  /\ got = known.doc
                  /\ got.id = id
                  /\ got.name = known.doc.name
                  /\ got.created_at = known.doc.created_at
                  /\ got.updated_at = known.doc.updated_at
                  /\ Len(got.tasks) = Len(known.doc.tasks)
                  /\ \A i \in 1..Len(got.tasks) :
                        /\ got.tasks[i] = known.doc.tasks[i]
                        /\ got.tasks[i].dependencies = known.doc.tasks[i].dependencies
            /\ known.kind \in {"never", "deleted"} => got = None

\* C21, witness: a project whose third task depends on the second and the
\* first, in that order, was put and is read back with that list.
C21_Witness ==
    \E id \in DOMAIN shared.disk :
        /\ shared.track[id].kind = "put"
        /\ Len(load_project_file(shared.disk, id).tasks) = 3
        /\ LET tasks == load_project_file(shared.disk, id).tasks
           IN  tasks[3].dependencies = <<tasks[2].id, tasks[1].id>>

\* C25: when a session's save of its changed copy succeeds, the file of
\* the project holds that session's whole document, whatever another
\* session holding the same project has put before: tasks only the other
\* session's copy has are not in the stored project.
C25_LastWriteWins ==
    ( /\ shared.last.name \in {"add_task", "delete_task"}
      /\ shared.last.outcome = "written" ) =>
        LET s == shared.last.session
            stored == load_project_file(shared.disk, shared.last.id)
        IN  /\ stored /= None
            /\ stored = shared.held[s]
            /\ \A t \in Sessions \ {s} :
                  ( shared.held[t] /= None /\ shared.held[t].id = shared.last.id ) =>
                      \A id \in TaskIds(shared.held[t].tasks) \ TaskIds(shared.held[s].tasks) :
                          id \notin TaskIds(stored.tasks)

\* C25, witness: both sessions hold the same project, each has added a
\* task and saved; the file is the document of the one that saved last and
\* lacks the task the other had saved.
C25_Witness ==
    \E s, t \in Sessions :
        /\ s /= t
        /\ shared.last.session = s
        /\ shared.last.name = "add_task"
        /\ shared.saved[s] = "written"
        /\ shared.saved[t] = "written"
        /\ shared.held[t] /= None
        /\ shared.held[t].id = shared.held[s].id
        /\ Len(shared.held[t].tasks) = 1
        /\ load_project_file(shared.disk, shared.last.id) = shared.held[s]
        /\ TaskIds(shared.held[t].tasks) \cap TaskIds(shared.held[s].tasks) = {}

\* What the handlers show with st.success.
SuccessMessages == {"Modifications enregistrées !", "Projet importé avec succès !"}

\* C22: when save_project fails in a handler that changes a project
\* (creation, rename, task add, edit and delete, table save, import,
\* duplication), the handler shows the failure and no message of success.
C22_StoreFailureReported ==
    ~ op.saved =>
        /\ op.message /= ""
        /\ op.message \notin SuccessMessages

\* C23: for the same filtered rows and the same sort field, the tasks of
\* the timeline from top to bottom are the tasks of the rows of the table
\* shown, in the same order.
C23_ChartOrderIsTableOrder ==
    view.pc = "tabs" =>
        [ i \in 1..Len(view.chart_df) |-> view.chart_df[i].ID ]
            = [ i \in 1..Len(view.editable_df) |-> view.editable_df[i].ID ]

\* C24: coloured by resource, the i-th distinct resource in the order the
\* sorted rows first show it has the palette colour number i mod the size
\* of the palette, so that every resource has a colour of the palette.
C24_CyclicPalette ==
    ( view.pc = "coloured" /\ view.color_by = "Responsable" ) =>
        LET rows == view.chart_df
            FirstRow(r) == CHOOSE i \in 1..Len(rows) :
                              /\ rows[i].resource = r
                              /\ \A j \in 1..(i - 1) : rows[j].resource /= r
            Seen(r) == Cardinality({ rows[j].resource : j \in 1..(FirstRow(r) - 1) })
        IN  \A r \in { rows[i].resource : i \in 1..Len(rows) } :
                /\ r \in DOMAIN view.color_map
                /\ view.color_map[r] = Plotly[(Seen(r) % Len(Plotly)) + 1]

\* C26: duplicate_project leaves its source as it was: the tasks of the
\* source project object main() holds keep their ids and dependency lists,
\* every stored document stays as it is, and the copy has a project id and
\* task ids that neither the source nor a stored project uses.
C26_DuplicateLeavesSource ==
    [][ op'.name = "duplicate_project" =>
          /\ ( /\ current_project /= None
               /\ project' /= None
               /\ project'.id = current_project.id )
             => /\ Len(project'.tasks) = Len(current_project.tasks)
                /\ \A i \in 1..Len(project'.tasks) :
                      /\ project'.tasks[i].id = current_project.tasks[i].id
                      /\ project'.tasks[i].dependencies
                            = current_project.tasks[i].dependencies
                /\ current_project'.id /= current_project.id
                /\ TaskIds(current_project'.tasks) \cap TaskIds(current_project.tasks) = {}
          /\ \A d \in store :
                /\ d \in store'
                /\ current_project'.id /= d.id
                /\ TaskIds(current_project'.tasks) \cap TaskIds(d.tasks) = {}
      ]_vars

\* C27: whenever edit_task_id is set, the task form is shown and
\* edit_task_id is the id of a task of the current project, so that the
\* form's save rewrites that task and appends none.
C27_EditTaskIdNamesATask ==
    edit_task_id /= NoTaskId =>
        /\ show_task_form
        /\ current_project /= None
        /\ edit_task_id \in TaskIds(current_project.tasks)
        /\ edit_task_data(current_project, edit_task_id) /= None

\* C28: what is offered for download after an export is the payload the
\* export chain returned, under the MIME type it returned, whichever stage
\* produced it.
C28_DownloadIsExportResult ==
    export.pc = "offered" =>
        /\ export.download.data = bytes_object(export.result.payload)
        /\ export.download.mime = export.result.mime

====
